---------------------------- MODULE Spec2Model ----------------------------
(***************************************************************************)
(* A model of the Celo node package: the JSON-RPC / explorer transport     *)
(* (nodes/Celo/transport/celoClient.ts), the network and contract          *)
(* resolvers, the helper functions (nodes/Celo/utils/helpers.ts), the      *)
(* per-item dispatch loop of Celo.execute (nodes/Celo/Celo.node.ts), the   *)
(* poll cycle of the trigger (nodes/Celo/CeloTrigger.node.ts), the ABI     *)
(* encoders and decoders, and the unit conversions.                        *)
(*                                                                         *)
(* Text the code takes apart (addresses, hashes, amounts) is a sequence of *)
(* one-character strings; text the code only compares or copies (network   *)
(* keys, method names, URLs, messages) is a TLA+ string.                   *)
(***************************************************************************)
EXTENDS Integers, Sequences, FiniteSets, TLC

VARIABLES
    credentials,   \* what context.getCredentials('celoApi') returns
    now,           \* the value Date.now() returns (milliseconds)
    calls,         \* transport invocations, in the order they were started
    httpLog,       \* every context.helpers.httpRequest issued, in order
    query,         \* resolver specification: the lookup that was made
    answer,        \* resolver specification: what the lookup produced
    exec,          \* Celo.execute: the state of one run of the item loop
    trigger        \* CeloTrigger.poll: the checkpoint, the chain and the cycle

vars == <<credentials, now, calls, httpLog, query, answer, exec, trigger>>

----------------------------------------------------------------------------
(* Bounds of the model.                                                    *)

\* transport invocations started one by one in one behaviour
MaxCalls == 2
\* the largest value the millisecond clock takes
MaxClock == 1
\* input items handed to one run of execute
MaxItems == 2
\* poll cycles started
MaxPolls == 2
\* blocks the chain grows by while the trigger is watched
MaxBlocks == 2
\* the head of the chain when the trigger is activated
FirstHead == 2000
\* poll: blocks looked back on the first cycle, and the longest range queried
LookBack == 100
RangeLimit == 1000

----------------------------------------------------------------------------
(* JavaScript values.                                                      *)

Undefined == [t |-> "undefined"]
Null == [t |-> "null"]
Str(s) == [t |-> "string", v |-> s]
ErrorObject(code, message) == [t |-> "object", code |-> code, message |-> message]

\* ToBoolean, as applied by `if (x)`, `!x` and `x || y`
Truthy(v) ==
    CASE v.t = "undefined" -> FALSE
      [] v.t = "null" -> FALSE
      [] v.t = "string" -> v.v # ""
      [] v.t = "text" -> v.v # <<>>
      [] v.t = "number" -> v.v # 0
      [] v.t = "NaN" -> FALSE
      [] v.t = "boolean" -> v.v
      [] OTHER -> TRUE

Range(f) == {f[k] : k \in DOMAIN f}

\* the outcome of a function: a returned value or a thrown Error
Return(v) == [ok |-> TRUE, value |-> v]
Throw(msg) == [ok |-> FALSE, error |-> msg]

----------------------------------------------------------------------------
(* constants/celo.constants.ts                                             *)

CELO_NETWORKS ==
    [mainnet |->
        [chainId |-> 42220,
         rpcUrl |-> "https://forno.celo.org",
         explorerApiUrl |-> "https://api.celoscan.io/api"],
     alfajores |->
        [chainId |-> 44787,
         rpcUrl |-> "https://alfajores-forno.celo-testnet.org",
         explorerApiUrl |-> "https://api-alfajores.celoscan.io/api"],
     baklava |->
        [chainId |-> 62320,
         rpcUrl |-> "https://baklava-forno.celo-testnet.org",
         explorerApiUrl |-> "https://baklava-blockscout.celo-testnet.org/api"]]

CELO_CONTRACTS ==
    [mainnet |->
        [GoldToken |-> "0x471EcE3750Da237f93B8E339c536989b8978a438",
         StableToken |-> "0x765DE816845861e75A25fCA122bb6898B8B1282a",
         StableTokenEUR |-> "0xD8763CBa276a3738E6DE85b4b3bF5FDed6D6cA73",
         StableTokenBRL |-> "0xe8537a3d056DA446677B9E9d6c5dB704EaAb4787",
         Attestations |-> "0xdC553892cdeeeD9f575aa0FBA099e5847fd88D20",
         FederatedAttestations |-> "0x0aD5b1d0C25ecF6266Dd951403723B2687d6aff2",
         OdisPayments |-> "0x9E78E2E49F7B82c6D3cC8A1d4c4e3cdE0A5b2E06",
         Election |-> "0x8D6677192144292870907E3Fa8A5527fE55A7ff6",
         LockedGold |-> "0x6cC083Aed9e3ebe302A6336dBC7c921C9f03349E",
         Validators |-> "0xaEb865bCa93DdC8F47b8e29F40C5399cE34d0C58",
         Governance |-> "0xD533Ca259b330c7A88f74E000a3FaEa2d63B7972",
         Reserve |-> "0x9380fA34Fd9e4Fd14c06305fd7B6199089eD4eb9",
         Exchange |-> "0x67316300f17f063085Ca8bCa4bd3f7a5a3C66275",
         ExchangeEUR |-> "0xE383394B913d7302c49F794C7d3243c429d53D1d",
         ExchangeBRL |-> "0x8f2cf9855C919AFAC8Bd2E7acEc0205ed568a4EA",
         Registry |-> "0x000000000000000000000000000000000000ce10"],
     alfajores |->
        [GoldToken |-> "0xF194afDf50B03e69Bd7D057c1Aa9e10c9954E4C9",
         StableToken |-> "0x874069Fa1Eb16D44d622F2e0Ca25eeA172369bC1",
         StableTokenEUR |-> "0x10c892A6EC43a53E45D0B916B4b7D383B1b78C0F",
         StableTokenBRL |-> "0xE4D517785D091D3c54818832dB6094bcc2744545",
         Attestations |-> "0xAD5E5722427d79DFf28a4Ab30249729d1F8B4cc0",
         FederatedAttestations |-> "0x70F9314aF173c246669cFb0EEe79F9Cfd9C34ee3",
         OdisPayments |-> "0x645170cdB6B5c1bc80847bb728dBa56C50a20a49",
         Election |-> "0x1c3eDf937CFc2F6F51784D20DEB1af1F9a8655fA",
         LockedGold |-> "0x6a4CC5693DC5BFA3799C699F3B941bA2Cb00c341",
         Validators |-> "0x9acF2A99914E083aD0d610672E93d14b0736BBCc",
         Governance |-> "0xAA963FC97281d9632d96700aB62A4D1340F9a28a",
         Reserve |-> "0xa7ed835288Aa4524bB6C73DD23c0bF4315D9Fe3e",
         Exchange |-> "0x17bc3C8798BC1e0718f83EB032DfED2Ee2a6F0a8",
         ExchangeEUR |-> "0x997B494F17D3c49E66Fafb50F37b5d9Ba693F5dC",
         ExchangeBRL |-> "0xf391DcaA77B9d5cc28F4815E022B7E95e91A4E16",
         Registry |-> "0x000000000000000000000000000000000000ce10"]]

STABLECOINS ==
    [cUSD |->
        [mainnet |-> "0x765DE816845861e75A25fCA122bb6898B8B1282a",
         alfajores |-> "0x874069Fa1Eb16D44d622F2e0Ca25eeA172369bC1"],
     cEUR |->
        [mainnet |-> "0xD8763CBa276a3738E6DE85b4b3bF5FDed6D6cA73",
         alfajores |-> "0x10c892A6EC43a53E45D0B916B4b7D383B1b78C0F"],
     cREAL |->
        [mainnet |-> "0xe8537a3d056DA446677B9E9d6c5dB704EaAb4787",
         alfajores |-> "0xE4D517785D091D3c54818832dB6094bcc2744545"]]

FEE_CURRENCIES ==
    [mainnet |->
        [cUSD |-> "0x765DE816845861e75A25fCA122bb6898B8B1282a",
         cEUR |-> "0xD8763CBa276a3738E6DE85b4b3bF5FDed6D6cA73",
         cREAL |-> "0xe8537a3d056DA446677B9E9d6c5dB704EaAb4787"],
     alfajores |->
        [cUSD |-> "0x874069Fa1Eb16D44d622F2e0Ca25eeA172369bC1",
         cEUR |-> "0x10c892A6EC43a53E45D0B916B4b7D383B1b78C0F",
         cREAL |-> "0xE4D517785D091D3c54818832dB6094bcc2744545"]]

\* the CeloNetwork type: the four profiles a credential can select
CeloNetwork == {"mainnet", "alfajores", "baklava", "custom"}


\* keys every object literal inherits from Object.prototype: obj[key] is then
\* a truthy value that has none of the literal's fields
ObjectPrototypeKeys == {"constructor", "toString", "valueOf", "hasOwnProperty"}

----------------------------------------------------------------------------
(* transport/celoClient.ts: the resolvers                                  *)

\* variant of getRpcUrl: a custom network without an endpoint silently gets
\* the mainnet endpoint
getRpcUrl_DefaultsToMainnet(creds) ==
    IF creds.network = "custom"
    THEN IF ~Truthy(creds.rpcEndpoint)
         THEN Return(Str(CELO_NETWORKS.mainnet.rpcUrl))
         ELSE Return(creds.rpcEndpoint)
    ELSE IF creds.network \in DOMAIN CELO_NETWORKS
         THEN Return(Str(CELO_NETWORKS[creds.network].rpcUrl))
         ELSE Throw(<<"Unknown network: ", creds.network>>)

\* getRpcUrl(credentials)
getRpcUrl(creds) ==
    IF creds.network = "custom"
    THEN IF ~Truthy(creds.rpcEndpoint)
         THEN Throw(<<"Custom network requires an RPC endpoint">>)
         ELSE Return(creds.rpcEndpoint)
    ELSE IF creds.network \in DOMAIN CELO_NETWORKS
         THEN Return(Str(CELO_NETWORKS[creds.network].rpcUrl))
         ELSE IF creds.network \in ObjectPrototypeKeys
              THEN Return(Undefined)
              ELSE Throw(<<"Unknown network: ", creds.network>>)

\* getExplorerApiUrl(credentials)
getExplorerApiUrl(creds) ==
    IF creds.network = "custom" \/ creds.network = "baklava"
    THEN \* networkConfig?.explorerApiUrl || ''
         IF creds.network \in DOMAIN CELO_NETWORKS
         THEN Return(Str(CELO_NETWORKS[creds.network].explorerApiUrl))
         ELSE Return(Str(""))
    ELSE IF creds.network \in DOMAIN CELO_NETWORKS
         THEN Return(Str(CELO_NETWORKS[creds.network].explorerApiUrl))
         ELSE IF creds.network \in ObjectPrototypeKeys
              THEN Return(Undefined)
              ELSE Throw(<<"Unknown network: ", creds.network>>)

\* variant of ContractTableKey: only mainnet reads the mainnet table
ContractTableKey_MainnetOnly(network) ==
    IF network = "mainnet" THEN "mainnet" ELSE "alfajores"

\* the table a contract lookup reads: the ternary of getContractAddress,
\* getStablecoinAddress, getFeeCurrencyOptions and getExchangeAddress
ContractTableKey(network) ==
    IF network = "mainnet" \/ network = "custom" THEN "mainnet" ELSE "alfajores"

\* getContractAddress(network, contractName)
getContractAddress(network, contractName) ==
    LET contracts == CELO_CONTRACTS[ContractTableKey(network)]
    IN  IF contractName \in DOMAIN contracts
        THEN Return(Str(contracts[contractName]))
        ELSE Throw(<<"Contract ", contractName, " not found for network ", network>>)

\* getChainId(network)
getChainId(network) ==
    IF network = "custom"
    THEN Return([t |-> "number", v |-> CELO_NETWORKS.mainnet.chainId])
    ELSE IF network \in DOMAIN CELO_NETWORKS
         THEN Return([t |-> "number", v |-> CELO_NETWORKS[network].chainId])
         ELSE IF network \in ObjectPrototypeKeys
              THEN Return(Undefined)
              ELSE Throw(<<"TypeError: Cannot read properties of undefined (reading 'chainId')">>)

----------------------------------------------------------------------------
(* utils/helpers.ts: the contract lookups                                  *)

\* getStablecoinAddress(symbol, network)
getStablecoinAddress(symbol, network) ==
    IF symbol \notin DOMAIN STABLECOINS
    THEN Throw(<<"Unknown stablecoin: ", symbol>>)
    ELSE Return(Str(STABLECOINS[symbol][ContractTableKey(network)]))

\* getFeeCurrencyOptions(network)
getFeeCurrencyOptions(network) ==
    LET currencies == FEE_CURRENCIES[ContractTableKey(network)]
    IN  Return(<<[symbol |-> "CELO", address |-> Null, name |-> "Celo Native Token"],
                 [symbol |-> "cUSD", address |-> Str(currencies.cUSD), name |-> "Celo Dollar"],
                 [symbol |-> "cEUR", address |-> Str(currencies.cEUR), name |-> "Celo Euro"],
                 [symbol |-> "cREAL", address |-> Str(currencies.cREAL),
                  name |-> "Celo Brazilian Real"]>>)

\* getExchangeAddress(symbol, network)
getExchangeAddress(symbol, network) ==
    LET contracts == CELO_CONTRACTS[ContractTableKey(network)]
    IN  CASE symbol = "cUSD" -> Return(Str(contracts.Exchange))
          [] symbol = "cEUR" -> Return(Str(contracts.ExchangeEUR))
          [] symbol = "cREAL" -> Return(Str(contracts.ExchangeBRL))
          [] OTHER -> Throw(<<"Unknown stablecoin for exchange: ", symbol>>)

----------------------------------------------------------------------------
(* transport/celoClient.ts: makeRpcCall, makeExplorerCall, signTransaction *)

\* String(v) / `${v}` for the values a response can carry
JsToString(v) ==
    CASE v.t = "string" -> v.v
      [] v.t = "undefined" -> "undefined"
      [] v.t = "null" -> "null"
      [] v.t = "array" -> IF v.len = 0 THEN "" ELSE "[object Object]"
      [] OTHER -> "[object Object]"

\* a === b for JavaScript values
StrictEquals(a, b) == a.t = b.t /\ a = b

\* a transport invocation that threw before it issued any request
FailedCall(fn, method, msg) ==
    [fn |-> fn, method |-> method, status |-> "failed", answered |-> FALSE,
     response |-> Undefined, value |-> Undefined, error |-> msg]

\* a transport invocation suspended at `await context.helpers.httpRequest`
PendingCall(fn, method) ==
    [fn |-> fn, method |-> method, status |-> "pending", answered |-> FALSE,
     response |-> Undefined, value |-> Undefined, error |-> <<>>]

\* the POST of makeRpcCall: body {jsonrpc, method, params, id: Date.now()}
RpcRequest(call, itemIndex, url, method, params, t) ==
    [call |-> call, item |-> itemIndex, verb |-> "POST", url |-> url,
     body |-> [jsonrpc |-> "2.0", method |-> method, params |-> params, id |-> t]]

\* the GET of makeExplorerCall: qs is params, plus apikey when one is configured
ExplorerRequest(call, itemIndex, url, params, creds) ==
    [call |-> call, item |-> itemIndex, verb |-> "GET", url |-> url,
     qs |-> [params |-> params,
             apikey |-> IF Truthy(creds.celoscanApiKey)
                        THEN creds.celoscanApiKey ELSE Undefined]]

\* variant of RpcOutcome: a result, when present, wins over the error object
RpcOutcome_ResultWins(response) ==
    IF response.result.t # "undefined"
    THEN Return(response.result)
    ELSE IF Truthy(response.error)
         THEN Throw(<<"RPC Error: ", response.error.message,
                      " (code: ", ToString(response.error.code), ")">>)
         ELSE Return(response.result)

\* makeRpcCall after the await: the response decides the outcome
RpcOutcome(response) ==
    IF Truthy(response.error)
    THEN Throw(<<"RPC Error: ", response.error.message,
                 " (code: ", ToString(response.error.code), ")">>)
    ELSE Return(response.result)

\* variant of ExplorerOutcome: every status "0" is an error
ExplorerOutcome_NoSentinel(response) ==
    IF StrictEquals(response.status, Str("0"))
    THEN Throw(<<"Explorer API Error: ",
                 JsToString(IF Truthy(response.message)
                            THEN response.message ELSE response.result)>>)
    ELSE Return(response.result)

\* makeExplorerCall after the await
ExplorerOutcome(response) ==
    IF /\ StrictEquals(response.status, Str("0"))
       /\ ~StrictEquals(response.message, Str("No transactions found"))
    THEN Throw(<<"Explorer API Error: ",
                 JsToString(IF Truthy(response.message)
                            THEN response.message ELSE response.result)>>)
    ELSE Return(response.result)

\* a call resumed with the response the server sent
Completed(c, response, outcome) ==
    [c EXCEPT !.status = IF outcome.ok THEN "returned" ELSE "failed",
              !.answered = TRUE,
              !.response = response,
              !.value = IF outcome.ok THEN outcome.value ELSE Undefined,
              !.error = IF outcome.ok THEN <<>> ELSE outcome.error]

\* makeRpcCall up to its await, started when the clock shows t:
\* the calls and the log after it
StartRpc(cs, log, creds, method, params, itemIndex, t) ==
    LET rpcUrl == getRpcUrl(creds)
    IN  IF ~rpcUrl.ok
        THEN [calls |-> Append(cs, FailedCall("makeRpcCall", method, rpcUrl.error)),
              log |-> log]
        ELSE [calls |-> Append(cs, PendingCall("makeRpcCall", method)),
              log |-> Append(log, RpcRequest(Len(cs) + 1, itemIndex, rpcUrl.value,
                                             method, params, t))]

\* the JSON-RPC responses a node sends
RpcResponses ==
    {[result |-> Str("0x12345678"), error |-> Undefined],
     [result |-> Null, error |-> Undefined],
     [result |-> Str("0x12345678"), error |-> Null],
     [result |-> Undefined, error |-> ErrorObject(-32602, "Invalid params")],
     [result |-> Null, error |-> ErrorObject(-32000, "execution reverted")],
     [result |-> Undefined, error |-> Undefined]}

\* the responses of the block explorer
Array(n) == [t |-> "array", len |-> n]
ExplorerResponses ==
    {[status |-> Str("1"), message |-> Str("OK"), result |-> Array(1)],
     [status |-> Str("0"), message |-> Str("No transactions found"), result |-> Array(0)],
     [status |-> Str("0"), message |-> Str("NOTOK"), result |-> Str("Max rate limit reached")],
     [status |-> Str("0"), message |-> Str(""), result |-> Str("Invalid API Key")],
     [status |-> Undefined, message |-> Undefined, result |-> Undefined]}

\* the wrappers getBlockNumber, getGasPrice: a call with no parameters
RpcMethods == {"eth_blockNumber"}

\* makeRpcCall(context, method, params): up to the await
makeRpcCall(method, params) ==
    /\ Len(calls) < MaxCalls
    /\ LET s == StartRpc(calls, httpLog, credentials, method, params, 0, now)
       IN  calls' = s.calls /\ httpLog' = s.log
    /\ UNCHANGED <<credentials, now, query, answer, exec, trigger>>

\* variant of RpcResponse: an error envelope makes the transport send the
\* request once more before it gives up
RpcResponse_RetriesOnce(c, response) ==
    /\ calls[c].fn = "makeRpcCall"
    /\ calls[c].status = "pending"
    /\ IF /\ Truthy(response.error)
          /\ Cardinality({k \in DOMAIN httpLog : httpLog[k].call = c}) < 2
       THEN /\ httpLog' = Append(httpLog,
                   RpcRequest(c, 0, getRpcUrl(credentials).value, calls[c].method, <<>>, now))
            /\ UNCHANGED calls
       ELSE /\ calls' = [calls EXCEPT
                           ![c] = Completed(calls[c], response, RpcOutcome(response))]
            /\ UNCHANGED httpLog
    /\ UNCHANGED <<credentials, now, query, answer, exec, trigger>>

\* makeRpcCall resumes: the node answered call c
RpcResponse(c, response) ==
    /\ calls[c].fn = "makeRpcCall"
    /\ calls[c].status = "pending"
    /\ calls' = [calls EXCEPT ![c] = Completed(calls[c], response, RpcOutcome(response))]
    /\ UNCHANGED <<credentials, now, httpLog, query, answer, exec, trigger>>

\* Promise.all([getBlockNumber, getGasPrice, makeRpcCall('eth_chainId')]) of
\* getNetworkStats: three invocations in flight together; each reads the clock
\* after its own `await getCredentials`. The operation starts on an idle
\* transport.
PromiseAllNetworkStats ==
    /\ calls = <<>>
    /\ \E t2 \in now..MaxClock : \E t3 \in t2..MaxClock :
         LET s1 == StartRpc(calls, httpLog, credentials, "eth_blockNumber", <<>>, 0, now)
             s2 == StartRpc(s1.calls, s1.log, credentials, "eth_gasPrice", <<>>, 0, t2)
             s3 == StartRpc(s2.calls, s2.log, credentials, "eth_chainId", <<>>, 0, t3)
         IN  calls' = s3.calls /\ httpLog' = s3.log /\ now' = t3
    /\ UNCHANGED <<credentials, query, answer, exec, trigger>>

\* makeExplorerCall up to its await: the calls and the log after it
StartExplorer(cs, log, creds, params, itemIndex) ==
    LET explorerUrl == getExplorerApiUrl(creds)
    IN  IF ~explorerUrl.ok
        THEN [calls |-> Append(cs, FailedCall("makeExplorerCall", params, explorerUrl.error)),
              log |-> log]
        ELSE IF ~Truthy(explorerUrl.value)
        THEN [calls |-> Append(cs, FailedCall("makeExplorerCall", params,
                                 <<"Explorer API not available for this network">>)),
              log |-> log]
        ELSE [calls |-> Append(cs, PendingCall("makeExplorerCall", params)),
              log |-> Append(log, ExplorerRequest(Len(cs) + 1, itemIndex, explorerUrl.value,
                                                  params, creds))]

\* makeExplorerCall(context, params): up to the await
makeExplorerCall(params) ==
    /\ Len(calls) < MaxCalls
    /\ LET s == StartExplorer(calls, httpLog, credentials, params, 0)
       IN  calls' = s.calls /\ httpLog' = s.log
    /\ UNCHANGED <<credentials, now, query, answer, exec, trigger>>

\* makeExplorerCall resumes: the explorer answered call c
ExplorerResponse(c, response) ==
    /\ calls[c].fn = "makeExplorerCall"
    /\ calls[c].status = "pending"
    /\ calls' = [calls EXCEPT ![c] = Completed(calls[c], response, ExplorerOutcome(response))]
    /\ UNCHANGED <<credentials, now, httpLog, query, answer, exec, trigger>>

\* the await of httpRequest rejects (no response): the rejection propagates
HttpReject(c) ==
    /\ calls[c].status = "pending"
    /\ calls' = [calls EXCEPT ![c].status = "failed", ![c].error = <<"httpRequest rejected">>]
    /\ UNCHANGED <<credentials, now, httpLog, query, answer, exec, trigger>>

\* signTransaction(context, transaction)
signTransaction ==
    /\ Len(calls) < MaxCalls
    /\ calls' = Append(calls,
          IF ~Truthy(credentials.privateKey)
          THEN FailedCall("signTransaction", "", <<"Private key is required for signing transactions">>)
          ELSE FailedCall("signTransaction", "",
                  <<"Transaction signing requires additional setup. ",
                    "Please use a signing service or implement proper transaction signing.">>))
    /\ UNCHANGED <<credentials, now, httpLog, query, answer, exec, trigger>>

\* Date.now() advances
Tick ==
    /\ now < MaxClock
    /\ now' = now + 1
    /\ UNCHANGED <<credentials, calls, httpLog, query, answer, exec, trigger>>

\* the credentials a workflow can hold
Credentials(network, rpcEndpoint, privateKey, celoscanApiKey) ==
    [network |-> network, rpcEndpoint |-> rpcEndpoint,
     privateKey |-> privateKey, celoscanApiKey |-> celoscanApiKey]

CredentialSet ==
    {Credentials("mainnet", Str(""), Str(""), Str("")),
     Credentials("mainnet", Str(""), Str("0xprivatekey"), Str("APIKEY")),
     Credentials("alfajores", Str(""), Str(""), Str("")),
     Credentials("custom", Undefined, Str(""), Str("")),
     Credentials("custom", Str(""), Str("0xprivatekey"), Str("")),
     Credentials("custom", Str("https://custom.rpc.endpoint"), Str(""), Str("")),
     Credentials("testnet", Str(""), Str(""), Str(""))}

NoExec == [status |-> "idle"]
NoTrigger == [pc |-> "none"]
NoQuery == [fn |-> "none"]

Init ==
    /\ credentials \in CredentialSet
    /\ now = 0
    /\ calls = <<>>
    /\ httpLog = <<>>
    /\ query = NoQuery
    /\ answer = Return(Undefined)
    /\ exec = NoExec
    /\ trigger = NoTrigger

Next ==
    \/ \E method \in RpcMethods : makeRpcCall(method, <<>>)
    \/ \E c \in DOMAIN calls : \E response \in RpcResponses : RpcResponse(c, response)
    \/ PromiseAllNetworkStats
    \/ makeExplorerCall("txlist")
    \/ \E c \in DOMAIN calls : \E response \in ExplorerResponses : ExplorerResponse(c, response)
    \/ \E c \in DOMAIN calls : HttpReject(c)
    \/ signTransaction
    \/ Tick

Spec == Init /\ [][Next]_vars

----------------------------------------------------------------------------
(* Text and BigInt.  A text is a sequence of one-character strings; a      *)
(* BigInt is a sign and a magnitude, the magnitude a sequence of decimal   *)
(* digits (most significant first, no leading zero, <<0>> for zero).       *)

DigitChars == <<"0", "1", "2", "3", "4", "5", "6", "7", "8", "9",
                "a", "b", "c", "d", "e", "f">>
UpperHexChars == <<"A", "B", "C", "D", "E", "F">>
DecimalDigitChars == {DigitChars[k] : k \in 1..10}
HexDigitChars == Range(DigitChars) \cup Range(UpperHexChars)

\* the value of a digit character in bases up to 16
DigitValues ==
    [ch \in HexDigitChars |->
        IF ch \in Range(DigitChars)
        THEN (CHOOSE k \in 1..16 : DigitChars[k] = ch) - 1
        ELSE (CHOOSE k \in 1..6 : UpperHexChars[k] = ch) + 9]
DigitValue(ch) == DigitValues[ch]

\* String.prototype.padEnd(length, '0')
padEnd(text, length) ==
    IF Len(text) >= length THEN text
    ELSE text \o [k \in 1..(length - Len(text)) |-> "0"]

\* String.prototype.slice(0, end) for end >= 0
sliceTo(text, end) ==
    IF Len(text) <= end THEN text ELSE SubSeq(text, 1, end)

\* the position of the first '.', 0 when there is none
FirstDot(text) ==
    IF \E k \in DOMAIN text : text[k] = "."
    THEN CHOOSE k \in DOMAIN text : text[k] = "." /\ \A j \in 1..(k - 1) : text[j] # "."
    ELSE 0

\* the first two elements of value.split('.'), the second '' when absent:
\* const [integerPart, fractionalPart = ''] = value.split('.')
SplitAmount(value) ==
    LET d == FirstDot(value)
        rest == IF d = 0 THEN <<>> ELSE SubSeq(value, d + 1, Len(value))
        e == FirstDot(rest)
    IN  [integerPart |-> IF d = 0 THEN value ELSE SubSeq(value, 1, d - 1),
         fractionalPart |-> IF e = 0 THEN rest ELSE SubSeq(rest, 1, e - 1)]

\* a magnitude without its leading zeros
StripZeros(ds) ==
    IF \A k \in DOMAIN ds : ds[k] = 0
    THEN (IF ds = <<>> THEN <<>> ELSE <<0>>)
    ELSE SubSeq(ds, CHOOSE k \in DOMAIN ds :
                        ds[k] # 0 /\ \A j \in 1..(k - 1) : ds[j] = 0,
                Len(ds))

\* Long multiplication and division by a small number go through the
\* digits one by one; here a sequence of digits is worked through half by
\* half, which gives the same digits.

\* the low Len(ds) decimal digits of ds * m + carry, least significant
\* first, and the carry out of them
RECURSIVE MulCarry(_, _, _)
RECURSIVE MulCarryLeft(_, _, _)
MulCarryJoin(right, left) == [low |-> right.low \o left.low, carry |-> left.carry]
MulCarry(ds, m, carry) ==
    IF ds = <<>> THEN [low |-> <<>>, carry |-> carry]
    ELSE IF Len(ds) = 1
    THEN [low |-> <<(ds[1] * m + carry) % 10>>, carry |-> (ds[1] * m + carry) \div 10]
    ELSE MulCarryLeft(ds, m, MulCarry(SubSeq(ds, Len(ds) \div 2 + 1, Len(ds)), m, carry))
MulCarryLeft(ds, m, right) ==
    MulCarryJoin(right, MulCarry(SubSeq(ds, 1, Len(ds) \div 2), m, right.carry))

\* the decimal digits of a small number, none for 0
RECURSIVE SmallDigits(_)
SmallDigits(n) == IF n = 0 THEN <<>> ELSE SmallDigits(n \div 10) \o <<n % 10>>

Reverse(s) == [k \in 1..Len(s) |-> s[Len(s) - k + 1]]

\* the decimal digits of ds * m + carry (leading zeros possible)
CarryFirst(product) == SmallDigits(product.carry) \o Reverse(product.low)
MulAdd(ds, m, carry) == CarryFirst(MulCarry(ds, m, carry))

\* how many digits of a base are taken at a time: base^w stays a small
\* number
ChunkWidth(base) == IF base = 16 THEN 6 ELSE IF base = 8 THEN 8 ELSE 24

\* the small number written by at most ChunkWidth(base) digit characters
RECURSIVE SmallFromBase(_, _, _)
SmallFromBase(text, base, acc) ==
    IF text = <<>> THEN acc
    ELSE SmallFromBase(Tail(text), base, acc * base + DigitValue(text[1]))

\* how many "0" characters a text begins with
ZerosAhead(text) ==
    IF \A k \in DOMAIN text : text[k] = "0" THEN Len(text)
    ELSE (CHOOSE k \in DOMAIN text :
             text[k] # "0" /\ \A j \in 1..(k - 1) : text[j] = "0") - 1

\* the magnitude written by the digit characters `text` in base `base`;
\* the zeros a text begins with add nothing to it
RECURSIVE FromBase(_, _, _)
RECURSIVE FromBaseChunk(_, _, _, _)
FromBase(text, base, acc) ==
    IF text = <<>> THEN acc
    ELSE IF acc = <<0>> /\ text[1] = "0"
    THEN FromBase(SubSeq(text, ZerosAhead(text) + 1, Len(text)), base, acc)
    ELSE FromBaseChunk(text, base, acc,
                       IF Len(text) < ChunkWidth(base) THEN Len(text)
                       ELSE ChunkWidth(base))
FromBaseChunk(text, base, acc, n) ==
    FromBase(SubSeq(text, n + 1, Len(text)), base,
             StripZeros(MulAdd(acc, base ^ n,
                               SmallFromBase(SubSeq(text, 1, n), base, 0))))

\* ds divided by the small number d: quotient digits (leading zeros kept)
\* and remainder
RECURSIVE DivSmall(_, _, _)
RECURSIVE DivSmallRight(_, _, _)
DivSmallJoin(left, right) == [q |-> left.q \o right.q, r |-> right.r]
DivSmall(ds, d, rem) ==
    IF ds = <<>> THEN [q |-> <<>>, r |-> rem]
    ELSE IF Len(ds) = 1
    THEN [q |-> <<(rem * 10 + ds[1]) \div d>>, r |-> (rem * 10 + ds[1]) % d]
    ELSE DivSmallRight(ds, d, DivSmall(SubSeq(ds, 1, Len(ds) \div 2), d, rem))
DivSmallRight(ds, d, left) ==
    DivSmallJoin(left, DivSmall(SubSeq(ds, Len(ds) \div 2 + 1, Len(ds)), d, left.r))

\* the digit characters of a small number n in base `base`, at least
\* `width` of them
RECURSIVE SmallToBase(_, _, _)
SmallToBase(n, base, width) ==
    IF n < base /\ width <= 1 THEN <<DigitChars[n + 1]>>
    ELSE SmallToBase(n \div base, base, width - 1) \o <<DigitChars[(n % base) + 1]>>

\* the digit characters of a magnitude in base `base` (2, 8 or 16), taken
\* base^w at a time, w digits from each remainder
RECURSIVE ToBase(_, _)
RECURSIVE ToBaseRest(_, _, _, _)
ToBase(ds, base) ==
    ToBaseRest(base, ChunkWidth(base), DivSmall(ds, base ^ ChunkWidth(base), 0), 0)
ToBaseRest(base, w, qr, unused) ==
    IF StripZeros(qr.q) = <<0>> THEN SmallToBase(qr.r, base, 1)
    ELSE ToBase(StripZeros(qr.q), base) \o SmallToBase(qr.r, base, w)

BigIntValue(neg, mag) == [neg |-> neg /\ mag # <<0>>, mag |-> mag]

\* the magnitude written by decimal digit characters
FromDecimal(text) == StripZeros([k \in DOMAIN text |-> DigitValue(text[k])])

AllIn(text, chars) == \A k \in DOMAIN text : text[k] \in chars

\* the literal a text spells for BigInt: its sign, its base and its digits.
\* Decimal digits with an optional sign, or a 0x / 0o / 0b literal (either
\* case); the empty text spells 0; anything else is not a literal.
\* (Surrounding white space, which BigInt ignores, is not among the texts
\* of this model.)
BasePrefixes == [x |-> 16, X |-> 16, o |-> 8, O |-> 8, b |-> 2, B |-> 2]
Literal(text) ==
    IF text = <<>>
    THEN [ok |-> TRUE, neg |-> FALSE, base |-> 10, digits |-> <<"0">>]
    ELSE IF Len(text) >= 2 /\ text[1] = "0" /\ text[2] \in DOMAIN BasePrefixes
    THEN [ok |-> /\ Len(text) > 2
                 /\ \A k \in 3..Len(text) :
                       /\ text[k] \in HexDigitChars
                       /\ DigitValue(text[k]) < BasePrefixes[text[2]],
          neg |-> FALSE, base |-> BasePrefixes[text[2]],
          digits |-> SubSeq(text, 3, Len(text))]
    ELSE IF text[1] \in {"+", "-"}
    THEN [ok |-> Len(text) > 1 /\ AllIn(Tail(text), DecimalDigitChars),
          neg |-> text[1] = "-", base |-> 10, digits |-> Tail(text)]
    ELSE [ok |-> AllIn(text, DecimalDigitChars),
          neg |-> FALSE, base |-> 10, digits |-> text]

\* the BigInt a literal denotes, or the SyntaxError
BigIntOfLiteral(literal) ==
    IF ~literal.ok THEN Throw(<<"SyntaxError: Cannot convert text to a BigInt">>)
    ELSE Return(BigIntValue(literal.neg,
                            IF literal.base = 10 THEN FromDecimal(literal.digits)
                            ELSE FromBase(literal.digits, literal.base, <<0>>)))

\* BigInt(text): StringToBigInt
StringToBigInt(text) == BigIntOfLiteral(Literal(text))

\* BigInt.prototype.toString(radix)
BigIntToString(b, radix) ==
    (IF b.neg THEN <<"-">> ELSE <<>>) \o
    (IF radix = 10 THEN [k \in DOMAIN b.mag |-> DigitChars[b.mag[k] + 1]]
     ELSE ToBase(b.mag, radix))

\* a JavaScript string held as text
Text(chars) == [t |-> "text", v |-> chars]

\* BigInt(v) for a value: a TypeError for undefined and null, 1n and 0n for
\* true and false
ToBigInt(v) ==
    CASE v.t = "text" -> StringToBigInt(v.v)
      [] v.t = "undefined" -> Throw(<<"TypeError: Cannot convert undefined to a BigInt">>)
      [] v.t = "null" -> Throw(<<"TypeError: Cannot convert null to a BigInt">>)
      [] v.t = "boolean" -> Return(BigIntValue(FALSE, IF v.v THEN <<1>> ELSE <<0>>))
      [] OTHER -> Throw(<<"SyntaxError: Cannot convert text to a BigInt">>)

\* BigInt(combined).toString(), or what BigInt throws
BigIntText(big, radix, prefix) ==
    IF big.ok THEN Return(prefix \o BigIntToString(big.value, radix)) ELSE big

\* integerPart + fractionalPart.padEnd(decimals, '0').slice(0, decimals)
Combined(parts, decimals) ==
    parts.integerPart \o sliceTo(padEnd(parts.fractionalPart, decimals), decimals)

\* parseUnits(value, decimals)
parseUnits(value, decimals) ==
    BigIntText(StringToBigInt(Combined(SplitAmount(value), decimals)), 10, <<>>)

\* toHex without the prefix in front of the converted digits
toHex_Unprefixed(value) ==
    IF Len(value) >= 2 /\ SubSeq(value, 1, 2) = <<"0", "x">>
    THEN Return(value)
    ELSE BigIntText(StringToBigInt(value), 16, <<>>)

\* toHex(value) for a string value
toHex(value) ==
    IF Len(value) >= 2 /\ SubSeq(value, 1, 2) = <<"0", "x">>
    THEN Return(value)
    ELSE BigIntText(StringToBigInt(value), 16, <<"0", "x">>)

\* isValidAddress(address): /^0x[a-fA-F0-9]{40}$/
isValidAddress(address) ==
    /\ Len(address) = 42
    /\ address[1] = "0" /\ address[2] = "x"
    /\ \A k \in 3..42 : address[k] \in HexDigitChars

\* isValidTransactionHash(hash): /^0x[a-fA-F0-9]{64}$/
isValidTransactionHash(hash) ==
    /\ Len(hash) = 66
    /\ hash[1] = "0" /\ hash[2] = "x"
    /\ \A k \in 3..66 : hash[k] \in HexDigitChars

----------------------------------------------------------------------------
(* Celo.execute: the item loop and the operations it dispatches to.  One   *)
(* iteration of the loop is one action: the node parameters of the item    *)
(* are read, the operation runs with the answers the servers give to its   *)
(* requests, and the result or the error is recorded.                      *)

\* what an operation leaves behind: the calls, the log and its outcome
Ran(cs, log, outcome) == [calls |-> cs, log |-> log, outcome |-> outcome]

\* a call of execute resumed with the server's response, when it got as far
\* as its request
Resumed(s, response, outcome) ==
    IF s.calls[Len(s.calls)].status = "failed"
    THEN Ran(s.calls, s.log, Throw(s.calls[Len(s.calls)].error))
    ELSE Ran([s.calls EXCEPT ![Len(s.calls)] = Completed(@, response, outcome)],
             s.log, outcome)

\* await makeRpcCall(...) inside execute, the node answering `response`
RpcRoundTrip(cs, log, creds, method, params, itemIndex, t, response) ==
    Resumed(StartRpc(cs, log, creds, method, params, itemIndex, t),
            response, RpcOutcome(response))

\* await makeExplorerCall(...) inside execute, the explorer answering `response`
ExplorerRoundTrip(cs, log, creds, params, itemIndex, response) ==
    Resumed(StartExplorer(cs, log, creds, params, itemIndex),
            response, ExplorerOutcome(response))

\* a transaction object as eth_getTransactionByHash returns it
TransactionData ==
    [t |-> "object",
     value |-> Text(<<"0", "x", "d", "e", "0", "b", "6", "b", "3", "a", "7",
                      "6", "4", "0", "0", "0", "0">>)]

\* what a node answers to a request of execute: the value the method asks
\* for, null, or an error object
NodeAnswers == {"value", "null", "error"}
NodeAnswer(method, answer_) ==
    CASE answer_ = "value" ->
           [result |-> IF method = "eth_getTransactionByHash" THEN TransactionData
                       ELSE IF method = "eth_getLogs" THEN Array(1)
                       ELSE Text(<<"0", "x", "5", "2", "0", "8">>),
            error |-> Undefined]
      [] answer_ = "null" -> [result |-> Null, error |-> Undefined]
      [] OTHER -> [result |-> Undefined, error |-> ErrorObject(-32602, "Invalid params")]

\* what the explorer answers to a request of execute
ExplorerAnswers == {"list", "none", "notok"}
ExplorerAnswer(answer_) ==
    CASE answer_ = "list" -> [status |-> Str("1"), message |-> Str("OK"), result |-> Array(1)]
      [] answer_ = "none" -> [status |-> Str("0"), message |-> Str("No transactions found"),
                              result |-> Array(0)]
      [] OTHER -> [status |-> Str("0"), message |-> Str("NOTOK"),
                   result |-> Str("Max rate limit reached")]

\* the rest of an operation after its last await: what a failed request or
\* a failed conversion threw, else the result
Concluded(rt, converted, result) ==
    IF ~rt.outcome.ok THEN rt
    ELSE IF ~converted.ok THEN Ran(rt.calls, rt.log, converted)
    ELSE Ran(rt.calls, rt.log, Return(result))

\* accounts / getBalance, after the await.  formatUnits(balance) throws what
\* BigInt(balance) throws; the formatted text is not kept in the result.
getBalance_Result(rt, item, creds) ==
    Concluded(rt, ToBigInt(rt.outcome.value),
              [address |-> item.address, balance |-> rt.outcome.value,
               symbol |-> "CELO", network |-> creds.network])

\* accounts / getBalance
Execute_getBalance(item, itemIndex, creds, cs, log, t, a1) ==
    getBalance_Result(RpcRoundTrip(cs, log, creds, "eth_getBalance",
                                   <<item.address, "latest">>, itemIndex, t,
                                   NodeAnswer("eth_getBalance", a1)),
                      item, creds)

\* accounts / getTransactionHistory, after the await
getTransactionHistory_Result(rt, item) ==
    Concluded(rt, Return(Undefined),
              [address |-> item.address,
               count |-> IF rt.outcome.value.t = "array" THEN rt.outcome.value.len ELSE 0])

\* accounts / getTransactionHistory
Execute_getTransactionHistory(item, itemIndex, creds, cs, log, ae) ==
    getTransactionHistory_Result(
        ExplorerRoundTrip(cs, log, creds,
                          [module |-> "account", action |-> "txlist",
                           address |-> item.address],
                          itemIndex, ExplorerAnswer(ae)),
        item)

\* transactions / getTransaction, after the await
getTransaction_Result(rt) ==
    IF rt.outcome.ok /\ ~Truthy(rt.outcome.value)
    THEN Ran(rt.calls, rt.log, Return([error |-> "Transaction not found"]))
    ELSE Concluded(rt,
                   ToBigInt(IF Truthy(rt.outcome.value.value)
                            THEN rt.outcome.value.value ELSE Text(<<"0">>)),
                   [value |-> rt.outcome.value.value])

\* transactions / getTransaction
Execute_getTransaction(item, itemIndex, creds, cs, log, t, a1) ==
    getTransaction_Result(RpcRoundTrip(cs, log, creds, "eth_getTransactionByHash",
                                       <<item.transactionHash>>, itemIndex, t,
                                       NodeAnswer("eth_getTransactionByHash", a1)))

\* transactions / estimateGas, after await getGasPrice:
\* BigInt(gasEstimate) * BigInt(gasPrice), then the result
estimateGas_Result(gasEstimate, rt2) ==
    IF rt2.outcome.ok /\ ~ToBigInt(gasEstimate).ok
    THEN Ran(rt2.calls, rt2.log, ToBigInt(gasEstimate))
    ELSE Concluded(rt2, ToBigInt(rt2.outcome.value),
                   [gasEstimate |-> gasEstimate, gasPrice |-> rt2.outcome.value])

\* transactions / estimateGas, after await estimateGas: getGasPrice
estimateGas_GasPrice(rt1, itemIndex, creds, t, a2) ==
    IF ~rt1.outcome.ok THEN rt1
    ELSE estimateGas_Result(rt1.outcome.value,
                            RpcRoundTrip(rt1.calls, rt1.log, creds, "eth_gasPrice", <<>>,
                                         itemIndex, t, NodeAnswer("eth_gasPrice", a2)))

\* transactions / estimateGas, the call of estimateGas with the value that
\* toHex(parseUnits(amount)) gave
estimateGas_Request(value, item, itemIndex, creds, cs, log, t, a1, a2) ==
    IF ~value.ok THEN Ran(cs, log, value)
    ELSE estimateGas_GasPrice(
             RpcRoundTrip(cs, log, creds, "eth_estimateGas",
                          <<[to |-> item.toAddress, value |-> value.value]>>,
                          itemIndex, t, NodeAnswer("eth_estimateGas", a1)),
             itemIndex, creds, t, a2)

\* toHex(parseUnits(amount)): what parseUnits threw, else toHex of its text
AmountToHex(wei) == IF wei.ok THEN toHex(wei.value) ELSE wei

\* transactions / estimateGas
Execute_estimateGas(item, itemIndex, creds, cs, log, t, a1, a2) ==
    estimateGas_Request(AmountToHex(parseUnits(item.amount, 18)),
                        item, itemIndex, creds, cs, log, t, a1, a2)

\* transactions / getFeeCurrency
Execute_getFeeCurrency(creds, cs, log) ==
    Concluded(Ran(cs, log, getFeeCurrencyOptions(creds.network)), Return(Undefined),
              [network |-> creds.network,
               feeCurrencies |-> getFeeCurrencyOptions(creds.network).value])

\* the operations that would change the chain, by resource
WriteOperations ==
    {<<"transactions", "sendTransaction">>, <<"transactions", "sendStablePayment">>,
     <<"identity", "requestAttestation">>, <<"identity", "completeAttestation">>,
     <<"stablecoins", "exchange">>,
     <<"staking", "voteForGroup">>, <<"staking", "revokeVotes">>,
     <<"staking", "activateVotes">>,
     <<"lockedCelo", "lockCELO">>, <<"lockedCelo", "unlockCELO">>,
     <<"lockedCelo", "withdraw">>,
     <<"governance", "voteOnProposal">>,
     <<"smartContracts", "writeContract">>}

\* the result a write operation assigns
WriteReport(operation) ==
    CASE operation = "sendTransaction" ->
           [error |-> "Transaction sending requires private key signing. Please use a signing service or implement proper transaction signing.",
            hint |-> "Use the Celo SDK or web3.js with your private key for transaction signing."]
      [] operation = "sendStablePayment" ->
           [error |-> "Stablecoin payments require transaction signing. Please use a signing service.",
            hint |-> "Use the Celo SDK for fee-abstracted stablecoin transfers."]
      [] operation \in {"requestAttestation", "completeAttestation"} ->
           [error |-> "Attestation operations require transaction signing and ODIS integration.",
            hint |-> "Use the Celo SDK @celo/identity package for attestation workflows."]
      [] operation = "exchange" ->
           [error |-> "Exchange operations require transaction signing.",
            hint |-> "Use the Celo SDK or web3.js to call the Exchange contract."]
      [] operation \in {"voteForGroup", "revokeVotes", "activateVotes"} ->
           [error |-> "Voting operations require transaction signing.",
            hint |-> "Use the Celo SDK or web3.js to interact with the Election contract."]
      [] operation \in {"lockCELO", "unlockCELO", "withdraw"} ->
           [error |-> "Lock/unlock operations require transaction signing.",
            hint |-> "Use the Celo SDK or web3.js to interact with the LockedGold contract."]
      [] operation = "voteOnProposal" ->
           [error |-> "Voting requires transaction signing.",
            hint |-> "Use the Celo SDK or web3.js to vote on governance proposals."]
      [] OTHER ->
           [error |-> "Contract writes require transaction signing.",
            hint |-> "Use the Celo SDK or web3.js to send transactions to contracts."]

\* variant of Execute_write: the write is attempted, unsigned, on the node
Execute_write_Attempted(operation, itemIndex, creds, cs, log, t) ==
    LET s == StartRpc(cs, log, creds, "eth_sendTransaction", <<>>, itemIndex, t)
    IN  Ran(s.calls, s.log, Return(WriteReport(operation)))

\* a write operation: the report, and nothing else
Execute_write(operation, itemIndex, creds, cs, log, t) ==
    Ran(cs, log, Return(WriteReport(operation)))

\* the operations of execute in this model
ReadOperations ==
    {<<"accounts", "getBalance">>, <<"accounts", "getTransactionHistory">>,
     <<"transactions", "getTransaction">>, <<"transactions", "estimateGas">>,
     <<"transactions", "getFeeCurrency">>}
ExecOperations == ReadOperations \cup WriteOperations

\* the body of the try block for one item
Dispatch(resource, operation, item, itemIndex, creds, cs, log, t, a1, a2, ae) ==
    CASE <<resource, operation>> = <<"accounts", "getBalance">> ->
           Execute_getBalance(item, itemIndex, creds, cs, log, t, a1)
      [] <<resource, operation>> = <<"accounts", "getTransactionHistory">> ->
           Execute_getTransactionHistory(item, itemIndex, creds, cs, log, ae)
      [] <<resource, operation>> = <<"transactions", "getTransaction">> ->
           Execute_getTransaction(item, itemIndex, creds, cs, log, t, a1)
      [] <<resource, operation>> = <<"transactions", "estimateGas">> ->
           Execute_estimateGas(item, itemIndex, creds, cs, log, t, a1, a2)
      [] <<resource, operation>> = <<"transactions", "getFeeCurrency">> ->
           Execute_getFeeCurrency(creds, cs, log)
      [] <<resource, operation>> \in WriteOperations ->
           Execute_write(operation, itemIndex, creds, cs, log, t)
      [] OTHER -> Ran(cs, log, Return([none |-> TRUE]))

\* the node parameters of an input item
Item(address, toAddress, amount, transactionHash) ==
    [address |-> address, toAddress |-> toAddress, amount |-> amount,
     transactionHash |-> transactionHash]

CeloTokenAddress ==
    <<"0", "x", "4", "7", "1", "E", "c", "E", "3", "7", "5", "0", "D",
    "a", "2", "3", "7", "f", "9", "3", "B", "8", "E", "3", "3", "9",
    "c", "5", "3", "6", "9", "8", "9", "b", "8", "9", "7", "8", "a",
    "4", "3", "8">>
CUSDAddress ==
    <<"0", "x", "7", "6", "5", "D", "E", "8", "1", "6", "8", "4", "5",
    "8", "6", "1", "e", "7", "5", "A", "2", "5", "f", "C", "A", "1",
    "2", "2", "b", "b", "6", "8", "9", "8", "B", "8", "B", "1", "2",
    "8", "2", "a">>
SomeTransactionHash ==
    <<"0", "x", "9", "f", "c", "7", "6", "4", "1", "7", "3", "7", "4",
    "a", "a", "8", "8", "0", "d", "4", "4", "4", "9", "a", "1", "f",
    "7", "f", "3", "1", "e", "c", "5", "9", "7", "f", "0", "0", "b",
    "1", "f", "6", "f", "3", "d", "d", "2", "d", "6", "6", "f", "4",
    "c", "9", "c", "6", "c", "4", "4", "5", "8", "3", "6", "d", "8",
    "b">>
ShortHex == <<"0", "x", "1", "2", "3">>

\* the items a workflow feeds in: a well-formed one, one whose address and
\* hash are too short and whose amount has a letter in it, and one whose
\* amount has two decimal points
ItemSet ==
    {Item(CeloTokenAddress, CUSDAddress, <<"1", ".", "5">>, SomeTransactionHash),
     Item(ShortHex, ShortHex, <<"1", "a">>, ShortHex),
     Item(CeloTokenAddress, CUSDAddress, <<"1", ".", "2", ".", "3">>, SomeTransactionHash)}

\* the lists of input items: up to MaxItems items
InputLists == UNION {[1..n -> ItemSet] : n \in 0..MaxItems}

\* execute(): the input items and the node parameters read at index 0
execute ==
    /\ exec.status = "idle"
    /\ \E op \in ExecOperations : \E items \in InputLists : \E continueOnFail \in BOOLEAN :
          exec' = [status |-> "running", resource |-> op[1], operation |-> op[2],
                   items |-> items, continueOnFail |-> continueOnFail,
                   i |-> 1, returnData |-> <<>>, failed |-> {}, error |-> <<>>]
    /\ UNCHANGED <<credentials, now, calls, httpLog, query, answer, trigger>>

\* the answers the servers can give to the requests of one iteration:
\* the node's to the first and to the second RPC request, the explorer's
AnswersFor(operation) ==
    CASE operation = "estimateGas" -> NodeAnswers \X NodeAnswers \X {"list"}
      [] operation \in {"getBalance", "getTransaction"} -> NodeAnswers \X {"value"} \X {"list"}
      [] operation = "getTransactionHistory" -> {"value"} \X {"value"} \X ExplorerAnswers
      [] OTHER -> {<<"value", "value", "list">>}

\* the end of an iteration in which a failed item leaves no output item
Recorded_FailedItemDropped(run) ==
    /\ calls' = run.calls
    /\ httpLog' = run.log
    /\ exec' = IF run.outcome.ok
               THEN [exec EXCEPT !.returnData = Append(@, [json |-> run.outcome.value]),
                                 !.i = @ + 1]
               ELSE IF exec.continueOnFail
               THEN [exec EXCEPT !.failed = @ \cup {exec.i},
                                 !.i = @ + 1]
               ELSE [exec EXCEPT !.status = "thrown",
                                 !.failed = @ \cup {exec.i},
                                 !.error = run.outcome.error]

\* the end of an iteration: returnData.push({json: result}), or the catch
\* block with the error the iteration threw
Recorded(run) ==
    /\ calls' = run.calls
    /\ httpLog' = run.log
    /\ exec' = IF run.outcome.ok
               THEN [exec EXCEPT !.returnData = Append(@, [json |-> run.outcome.value]),
                                 !.i = @ + 1]
               ELSE IF exec.continueOnFail
               THEN [exec EXCEPT !.returnData =
                                     Append(@, [json |-> [error |-> run.outcome.error]]),
                                 !.failed = @ \cup {exec.i},
                                 !.i = @ + 1]
               ELSE [exec EXCEPT !.status = "thrown",
                                 !.failed = @ \cup {exec.i},
                                 !.error = run.outcome.error]

\* one iteration of the loop over the items (exec.i is the item's position
\* counted from 1; the code's index is exec.i - 1)
ExecuteItem(a1, a2, ae) ==
    /\ exec.status = "running"
    /\ exec.i <= Len(exec.items)
    /\ <<a1, a2, ae>> \in AnswersFor(exec.operation)
    /\ Recorded(Dispatch(exec.resource, exec.operation, exec.items[exec.i], exec.i - 1,
                         credentials, calls, httpLog, now, a1, a2, ae))
    /\ UNCHANGED <<credentials, now, query, answer, trigger>>

\* return [returnData]
ExecuteReturn ==
    /\ exec.status = "running"
    /\ exec.i > Len(exec.items)
    /\ exec' = [exec EXCEPT !.status = "returned"]
    /\ UNCHANGED <<credentials, now, calls, httpLog, query, answer, trigger>>

\* the credentials of the runs explored
ExecCredentialSet ==
    {Credentials("mainnet", Str(""), Str("0xprivatekey"), Str("")),
     Credentials("custom", Str(""), Str(""), Str(""))}

InitExec ==
    /\ credentials \in ExecCredentialSet
    /\ now = 0
    /\ calls = <<>>
    /\ httpLog = <<>>
    /\ query = NoQuery
    /\ answer = Return(Undefined)
    /\ exec = NoExec
    /\ trigger = NoTrigger

NextExec ==
    \/ execute
    \/ \E a1, a2 \in NodeAnswers : \E ae \in ExplorerAnswers : ExecuteItem(a1, a2, ae)
    \/ ExecuteReturn
    \/ signTransaction

SpecExec == InitExec /\ [][NextExec]_vars

----------------------------------------------------------------------------
(* The numbers of CeloTrigger.poll: block numbers, parseInt, toHex.        *)

\* a JavaScript number that is an integer, and NaN
Num(n) == [t |-> "number", v |-> n]
NaN == [t |-> "NaN"]

\* a + k, a <= b and Math.max(a, b) on numbers: NaN spreads through
\* arithmetic and compares false
NumAdd(a, k) == IF a.t = "number" THEN Num(a.v + k) ELSE NaN
NumLeq(a, b) == a.t = "number" /\ b.t = "number" /\ a.v <= b.v
NumMax(a, b) ==
    IF a.t = "number" /\ b.t = "number"
    THEN Num(IF a.v >= b.v THEN a.v ELSE b.v)
    ELSE NaN

\* the number of hexadecimal digits a text begins with
HexPrefixLen(text) ==
    IF \E k \in DOMAIN text : text[k] \notin HexDigitChars
    THEN (CHOOSE k \in DOMAIN text :
             /\ text[k] \notin HexDigitChars
             /\ \A j \in 1..(k - 1) : text[j] \in HexDigitChars) - 1
    ELSE Len(text)

\* the number written by hexadecimal digits
RECURSIVE NatOfHex(_, _)
NatOfHex(digits, acc) ==
    IF digits = <<>> THEN acc
    ELSE NatOfHex(Tail(digits), acc * 16 + DigitValue(digits[1]))

\* parseInt(text, 16) after the optional 0x: the digits the text begins
\* with, NaN when there is none
ParseHexDigits(body) ==
    IF HexPrefixLen(body) = 0 THEN NaN
    ELSE Num(NatOfHex(SubSeq(body, 1, HexPrefixLen(body)), 0))

\* parseInt(value, 16).  undefined and null are read as the texts
\* 'undefined' and 'null', which begin with no hexadecimal digit.  (A sign
\* or leading white space, which parseInt accepts, is not among the texts
\* of this model.)
ParseInt16(value) ==
    IF value.t # "text" THEN NaN
    ELSE IF Len(value.v) >= 2 /\ value.v[1] = "0" /\ value.v[2] \in {"x", "X"}
    THEN ParseHexDigits(SubSeq(value.v, 3, Len(value.v)))
    ELSE ParseHexDigits(value.v)

\* String(n) for a number
NumberToString(n) ==
    IF n.t # "number" THEN <<"N", "a", "N">>
    ELSE IF n.v < 0 THEN <<"-">> \o SmallToBase(-n.v, 10, 1)
    ELSE SmallToBase(n.v, 10, 1)

\* toHex(value) for a number: '0x' + BigInt(value).toString(16); BigInt
\* throws a RangeError for NaN
toHexNumber(n) ==
    IF n.t # "number"
    THEN Throw(<<"RangeError: The number NaN cannot be converted to a BigInt because it is not an integer">>)
    ELSE IF n.v < 0 THEN Return(<<"0", "x", "-">> \o SmallToBase(-n.v, 16, 1))
    ELSE Return(<<"0", "x">> \o SmallToBase(n.v, 16, 1))

\* what the node answers to eth_blockNumber when the head is `head`
BlockNumberAnswer(head, answer_) ==
    CASE answer_ = "value" ->
           [result |-> Text(<<"0", "x">> \o SmallToBase(head, 16, 1)), error |-> Undefined]
      [] answer_ = "null" -> [result |-> Null, error |-> Undefined]
      [] OTHER -> [result |-> Undefined, error |-> ErrorObject(-32602, "Invalid params")]

----------------------------------------------------------------------------
(* The resolvers as operations: each action is one lookup with inputs      *)
(* drawn from the keys a caller can pass.                                  *)

\* network keys: the four profiles and keys that name no profile
NetworkKeys == CeloNetwork \cup {"Mainnet", "testnet"}
ContractNames == DOMAIN CELO_CONTRACTS.mainnet
ContractNameKeys == ContractNames \cup {"SortedOracles"}
StablecoinSymbols == DOMAIN STABLECOINS
StablecoinSymbolKeys == StablecoinSymbols \cup {"cKES"}
RpcEndpoints == {Undefined, Str(""), Str("https://custom.rpc.endpoint")}

Lookup(fn, network, arg) == [fn |-> fn, network |-> network, arg |-> arg]

ResolveRpcUrl ==
    /\ \E network \in NetworkKeys : \E rpcEndpoint \in RpcEndpoints :
          /\ query' = Lookup("getRpcUrl", network, rpcEndpoint)
          /\ answer' = getRpcUrl(Credentials(network, rpcEndpoint, Str(""), Str("")))
    /\ UNCHANGED <<credentials, now, calls, httpLog, exec, trigger>>

ResolveExplorerApiUrl ==
    /\ \E network \in NetworkKeys :
          /\ query' = Lookup("getExplorerApiUrl", network, Undefined)
          /\ answer' = getExplorerApiUrl(Credentials(network, Str(""), Str(""), Str("")))
    /\ UNCHANGED <<credentials, now, calls, httpLog, exec, trigger>>

ResolveContractAddress ==
    /\ \E network \in NetworkKeys : \E contractName \in ContractNameKeys :
          /\ query' = Lookup("getContractAddress", network, Str(contractName))
          /\ answer' = getContractAddress(network, contractName)
    /\ UNCHANGED <<credentials, now, calls, httpLog, exec, trigger>>

ResolveChainId ==
    /\ \E network \in NetworkKeys :
          /\ query' = Lookup("getChainId", network, Undefined)
          /\ answer' = getChainId(network)
    /\ UNCHANGED <<credentials, now, calls, httpLog, exec, trigger>>

ResolveStablecoinAddress ==
    /\ \E network \in NetworkKeys : \E symbol \in StablecoinSymbolKeys :
          /\ query' = Lookup("getStablecoinAddress", network, Str(symbol))
          /\ answer' = getStablecoinAddress(symbol, network)
    /\ UNCHANGED <<credentials, now, calls, httpLog, exec, trigger>>

ResolveExchangeAddress ==
    /\ \E network \in NetworkKeys : \E symbol \in StablecoinSymbolKeys :
          /\ query' = Lookup("getExchangeAddress", network, Str(symbol))
          /\ answer' = getExchangeAddress(symbol, network)
    /\ UNCHANGED <<credentials, now, calls, httpLog, exec, trigger>>

ResolveFeeCurrencyOptions ==
    /\ \E network \in NetworkKeys :
          /\ query' = Lookup("getFeeCurrencyOptions", network, Undefined)
          /\ answer' = getFeeCurrencyOptions(network)
    /\ UNCHANGED <<credentials, now, calls, httpLog, exec, trigger>>

InitResolve ==
    /\ credentials = Credentials("mainnet", Str(""), Str(""), Str(""))
    /\ now = 0
    /\ calls = <<>>
    /\ httpLog = <<>>
    /\ query = NoQuery
    /\ answer = Return(Undefined)
    /\ exec = NoExec
    /\ trigger = NoTrigger

NextResolve ==
    \/ ResolveContractAddress
    \/ ResolveRpcUrl
    \/ ResolveExplorerApiUrl
    \/ ResolveChainId
    \/ ResolveStablecoinAddress
    \/ ResolveExchangeAddress
    \/ ResolveFeeCurrencyOptions

SpecResolve == InitResolve /\ [][NextResolve]_vars

----------------------------------------------------------------------------
(* ABI encoding and decoding: transport/celoClient.ts and utils/helpers.ts *)

Bool(b) == [t |-> "boolean", v |-> b]

\* String(value) for the values of this model
StringOf(value) ==
    CASE value.t = "text" -> value.v
      [] value.t = "boolean" ->
            IF value.v THEN <<"t", "r", "u", "e">> ELSE <<"f", "a", "l", "s", "e">>
      [] value.t = "null" -> <<"n", "u", "l", "l">>
      [] OTHER -> <<"u", "n", "d", "e", "f", "i", "n", "e", "d">>

\* String.prototype.toLowerCase, on the letters the texts of this model hold
LowerCaseOf == [A |-> "a", B |-> "b", C |-> "c", D |-> "d", E |-> "e", F |-> "f",
                X |-> "x"]
toLowerCase(text) ==
    [k \in DOMAIN text |->
        IF text[k] \in DOMAIN LowerCaseOf THEN LowerCaseOf[text[k]] ELSE text[k]]

\* the position of the first "0x" in a text, 0 when there is none
IndexOf0x(text) ==
    IF \E k \in 1..(Len(text) - 1) : text[k] = "0" /\ text[k + 1] = "x"
    THEN CHOOSE k \in 1..(Len(text) - 1) :
            /\ text[k] = "0" /\ text[k + 1] = "x"
            /\ \A j \in 1..(k - 1) : ~(text[j] = "0" /\ text[j + 1] = "x")
    ELSE 0

\* text.replace('0x', ''): the first occurrence is removed, wherever it is
Without0xAt(text, k) ==
    IF k = 0 THEN text
    ELSE SubSeq(text, 1, k - 1) \o SubSeq(text, k + 2, Len(text))
replace0x(text) == Without0xAt(text, IndexOf0x(text))

\* a padLeft that pads nothing
padLeft_Unpadded(hex, length) == hex

\* padLeft(hex, length): hex.padStart(length, '0')
padLeft(hex, length) ==
    IF Len(hex) >= length THEN hex
    ELSE [k \in 1..(length - Len(hex)) |-> "0"] \o hex

\* text.slice(start, end) for 0 <= start, 0 <= end
slice(text, start, end) ==
    SubSeq(text, start + 1, IF end < Len(text) THEN end ELSE Len(text))

\* text.slice(-count): slice(-0) is slice(0), the whole text
sliceLast(text, count) ==
    IF count = 0 \/ Len(text) <= count THEN text
    ELSE SubSeq(text, Len(text) - count + 1, Len(text))

\* the text `${functionName}(${paramTypes.join(',')})`, held by its parts
Signature(functionName, paramTypes) == [name |-> functionName, types |-> paramTypes]

\* crypto.createHash('sha3-256').update(input).digest('hex') for the
\* signatures of this model
Sha3Digests == {
    \* balanceOf(address)
    <<Signature("balanceOf", <<"address">>),
      <<"1", "d", "7", "9", "7", "6", "f", "3", "9", "7", "6", "8", "4",
        "1", "5", "6", "e", "b", "c", "2", "3", "2", "a", "8", "9", "f",
        "5", "b", "2", "e", "9", "e", "1", "f", "3", "b", "5", "8", "6",
        "9", "9", "e", "1", "6", "f", "3", "1", "4", "4", "2", "0", "e",
        "0", "2", "f", "a", "0", "7", "d", "b", "a", "e", "2", "e">>>>,
    \* transfer(address,uint256)
    <<Signature("transfer", <<"address", "uint256">>),
      <<"4", "b", "4", "0", "e", "9", "0", "1", "e", "a", "d", "a", "9",
        "a", "b", "2", "d", "6", "d", "f", "a", "2", "a", "4", "e", "5",
        "f", "5", "0", "8", "8", "a", "f", "2", "1", "b", "5", "6", "b",
        "b", "8", "7", "7", "1", "2", "6", "c", "c", "8", "3", "f", "6",
        "8", "8", "4", "9", "c", "4", "a", "a", "9", "6", "0", "9">>>>,
    \* approve(address,uint256)
    <<Signature("approve", <<"address", "uint256">>),
      <<"a", "6", "1", "3", "9", "1", "4", "d", "0", "4", "c", "3", "c",
        "5", "f", "7", "c", "b", "d", "d", "d", "a", "8", "4", "c", "b",
        "2", "f", "6", "2", "3", "c", "0", "3", "7", "1", "7", "c", "2",
        "1", "b", "5", "b", "6", "9", "1", "4", "0", "8", "f", "b", "2",
        "2", "1", "8", "4", "c", "8", "8", "5", "0", "f", "8", "a">>>>,
    \* allowance(address,address)
    <<Signature("allowance", <<"address", "address">>),
      <<"0", "b", "f", "3", "a", "4", "5", "6", "e", "9", "3", "2", "3",
        "e", "b", "2", "0", "5", "5", "a", "f", "3", "1", "a", "7", "1",
        "b", "c", "f", "f", "e", "9", "b", "d", "9", "d", "d", "e", "d",
        "8", "0", "a", "5", "b", "0", "b", "5", "0", "d", "e", "a", "a",
        "e", "1", "8", "8", "1", "4", "c", "b", "8", "d", "a", "b">>>>,
    \* totalSupply()
    <<Signature("totalSupply", <<>>),
      <<"1", "f", "1", "8", "8", "1", "f", "8", "8", "3", "0", "4", "b",
        "4", "5", "b", "5", "9", "2", "4", "d", "e", "c", "d", "7", "3",
        "a", "7", "e", "2", "5", "c", "9", "c", "5", "5", "5", "9", "6",
        "1", "2", "7", "9", "0", "d", "3", "5", "c", "6", "0", "0", "e",
        "9", "6", "8", "c", "a", "d", "3", "6", "3", "9", "d", "1">>>>,
    \* decimals()
    <<Signature("decimals", <<>>),
      <<"5", "d", "1", "f", "b", "5", "f", "9", "9", "5", "3", "2", "b",
        "8", "7", "9", "1", "1", "6", "f", "2", "2", "1", "8", "a", "8",
        "6", "3", "4", "2", "e", "1", "0", "a", "c", "e", "2", "d", "c",
        "1", "7", "1", "1", "f", "4", "6", "8", "d", "1", "5", "e", "f",
        "5", "0", "7", "e", "d", "4", "6", "c", "4", "a", "2", "e">>>>,
    \* name()
    <<Signature("name", <<>>),
      <<"0", "7", "b", "a", "2", "a", "1", "7", "8", "5", "3", "d", "a",
        "1", "c", "2", "b", "b", "5", "b", "8", "3", "3", "6", "6", "7",
        "c", "2", "7", "6", "b", "e", "7", "5", "f", "5", "c", "f", "1",
        "c", "f", "7", "d", "5", "5", "4", "1", "9", "5", "7", "7", "d",
        "f", "c", "b", "6", "0", "f", "5", "4", "7", "3", "b", "e">>>>,
    \* symbol()
    <<Signature("symbol", <<>>),
      <<"2", "3", "1", "7", "8", "2", "d", "8", "b", "b", "5", "1", "7",
        "1", "1", "0", "0", "a", "4", "3", "d", "c", "5", "e", "e", "2",
        "1", "b", "f", "5", "2", "1", "b", "9", "0", "b", "b", "2", "9",
        "c", "b", "7", "7", "d", "0", "6", "1", "7", "e", "5", "8", "1",
        "1", "7", "2", "e", "0", "3", "6", "5", "b", "c", "6", "c">>>>,
    \* withdraw(uint256)
    <<Signature("withdraw", <<"uint256">>),
      <<"2", "8", "c", "5", "5", "f", "6", "9", "6", "d", "2", "2", "f",
        "1", "d", "9", "2", "4", "f", "e", "4", "3", "b", "9", "9", "e",
        "2", "f", "f", "c", "b", "b", "4", "6", "6", "4", "f", "f", "f",
        "6", "3", "d", "e", "4", "6", "7", "4", "7", "d", "9", "7", "3",
        "e", "2", "4", "3", "d", "3", "5", "2", "c", "4", "6", "7">>>>,
    \* burn(uint)
    <<Signature("burn", <<"uint">>),
      <<"c", "e", "4", "a", "5", "1", "f", "5", "d", "e", "8", "d", "b",
        "3", "f", "1", "4", "d", "5", "a", "1", "7", "a", "a", "a", "4",
        "8", "3", "0", "f", "6", "f", "2", "b", "f", "3", "7", "8", "8",
        "5", "6", "3", "b", "3", "c", "e", "7", "0", "1", "c", "f", "7",
        "5", "2", "c", "a", "f", "9", "7", "5", "4", "7", "c", "5">>>>,
    \* setEnabled(bool)
    <<Signature("setEnabled", <<"bool">>),
      <<"3", "d", "f", "f", "a", "7", "c", "c", "4", "e", "0", "9", "a",
        "1", "8", "c", "c", "7", "9", "e", "4", "7", "5", "5", "8", "2",
        "6", "f", "9", "1", "e", "d", "c", "0", "7", "1", "6", "1", "5",
        "4", "b", "7", "7", "2", "0", "8", "e", "1", "e", "5", "c", "6",
        "4", "b", "d", "4", "c", "1", "2", "1", "9", "f", "4", "0">>>>,
    \* commit(bytes32)
    <<Signature("commit", <<"bytes32">>),
      <<"8", "f", "3", "b", "b", "a", "c", "2", "f", "4", "4", "6", "0",
        "8", "b", "3", "2", "1", "0", "0", "c", "1", "5", "a", "1", "6",
        "0", "f", "2", "6", "a", "7", "8", "d", "f", "5", "d", "1", "2",
        "6", "e", "a", "7", "e", "c", "6", "a", "3", "0", "c", "a", "6",
        "a", "7", "1", "7", "7", "f", "b", "6", "4", "e", "0", "d">>>>,
    \* mint(address,uint)
    <<Signature("mint", <<"address", "uint">>),
      <<"5", "b", "5", "5", "0", "f", "5", "4", "5", "1", "d", "d", "8",
        "3", "4", "3", "1", "2", "1", "c", "b", "d", "e", "8", "9", "3",
        "7", "a", "9", "c", "e", "7", "9", "2", "e", "7", "2", "2", "f",
        "4", "e", "7", "6", "3", "e", "2", "1", "6", "a", "5", "9", "7",
        "4", "f", "b", "a", "3", "f", "5", "8", "f", "c", "2", "b">>>>,
    \* vote(uint256,bool)
    <<Signature("vote", <<"uint256", "bool">>),
      <<"e", "e", "a", "7", "e", "b", "f", "8", "c", "f", "6", "a", "7",
        "0", "8", "b", "8", "4", "7", "c", "9", "4", "7", "0", "b", "f",
        "b", "e", "1", "d", "a", "4", "4", "d", "1", "8", "3", "b", "4",
        "2", "f", "8", "9", "c", "2", "3", "c", "c", "6", "1", "9", "1",
        "e", "e", "2", "2", "2", "e", "b", "0", "2", "3", "a", "0">>>>,
    \* setName(string)
    <<Signature("setName", <<"string">>),
      <<"e", "2", "1", "e", "8", "0", "1", "c", "2", "3", "8", "c", "1",
        "1", "b", "7", "5", "d", "b", "e", "6", "6", "4", "f", "2", "8",
        "e", "d", "c", "e", "d", "a", "9", "d", "b", "7", "5", "6", "7",
        "e", "8", "b", "f", "d", "d", "6", "1", "5", "8", "9", "1", "f",
        "0", "f", "5", "2", "6", "4", "d", "4", "d", "e", "0", "9">>>>,
    \* store(bytes)
    <<Signature("store", <<"bytes">>),
      <<"6", "e", "5", "5", "a", "a", "3", "d", "0", "9", "e", "d", "3",
        "f", "4", "9", "b", "6", "c", "0", "f", "5", "e", "1", "a", "8",
        "3", "6", "9", "9", "d", "3", "2", "e", "b", "4", "5", "8", "c",
        "9", "c", "b", "f", "7", "0", "d", "d", "d", "e", "6", "c", "4",
        "4", "3", "e", "2", "3", "6", "9", "f", "a", "a", "5", "e">>>>,
    \* setDecimals(uint8)
    <<Signature("setDecimals", <<"uint8">>),
      <<"d", "8", "9", "7", "0", "b", "f", "6", "0", "1", "e", "3", "0",
        "b", "a", "2", "2", "2", "5", "c", "8", "1", "0", "8", "3", "d",
        "f", "f", "7", "c", "7", "c", "5", "1", "0", "b", "1", "c", "8",
        "1", "f", "e", "a", "8", "7", "1", "a", "3", "f", "c", "7", "4",
        "b", "2", "7", "1", "a", "6", "c", "4", "5", "0", "a", "a">>>>,
    \* register(string,uint256)
    <<Signature("register", <<"string", "uint256">>),
      <<"c", "0", "7", "4", "7", "5", "5", "3", "c", "6", "c", "7", "1",
        "f", "2", "9", "7", "9", "f", "b", "b", "8", "e", "5", "1", "f",
        "3", "4", "c", "d", "0", "9", "d", "c", "0", "7", "4", "f", "8",
        "2", "6", "5", "6", "d", "b", "6", "6", "d", "3", "c", "8", "7",
        "7", "2", "3", "0", "6", "0", "f", "f", "e", "a", "c", "6">>>>,
    \* setFee(uint8,uint256)
    <<Signature("setFee", <<"uint8", "uint256">>),
      <<"b", "9", "9", "3", "9", "0", "e", "4", "6", "d", "1", "e", "d",
        "4", "b", "1", "1", "e", "7", "e", "e", "5", "0", "f", "a", "e",
        "1", "2", "f", "b", "0", "d", "e", "c", "7", "f", "3", "0", "d",
        "a", "d", "e", "c", "a", "4", "d", "4", "a", "f", "5", "a", "1",
        "3", "b", "8", "5", "5", "c", "8", "7", "0", "5", "f", "c">>>>}
sha3_256(input) == (CHOOSE row \in Sha3Digests : row[1] = input)[2]

\* keccak256(input) of celoClient.ts
keccak256(input) == <<"0", "x">> \o sha3_256(input)

\* getFunctionSelector(functionName, paramTypes)
getFunctionSelector(functionName, paramTypes) ==
    slice(keccak256(Signature(functionName, paramTypes)), 0, 10)

\* a word written in decimal digits
HexWord_Decimal(big) ==
    IF big.ok THEN Return(padLeft(BigIntToString(big.value, 10), 64)) ELSE big

\* BigInt(value).toString(16) padded to a word, or what BigInt throws
HexWord(big) ==
    IF big.ok THEN Return(padLeft(BigIntToString(big.value, 16), 64)) ELSE big

\* values[i]
ValueAt(values, i) == IF i \in DOMAIN values THEN values[i] ELSE Undefined

\* an encoding of addresses that keeps the letter case
EncodedParameter_KeepsCase(type, value, typesLength) ==
    CASE type = "address" -> Return(padLeft(replace0x(StringOf(value)), 64))
      [] type \in {"uint256", "uint"} ->
            (IF ToBigInt(value).ok
             THEN Return(padLeft(BigIntToString(ToBigInt(value).value, 16), 64))
             ELSE ToBigInt(value))
      [] type = "bool" ->
            Return(padLeft(IF Truthy(value) THEN <<"1">> ELSE <<"0">>, 64))
      [] type = "bytes32" -> Return(padLeft(replace0x(StringOf(value)), 64))
      [] type \in {"string", "bytes"} ->
            Return(padLeft(SmallToBase(typesLength * 32, 16, 1), 64))
      [] OTHER -> Return(<<>>)

\* one round of the loop of encodeParameters: what is appended to `encoded`
EncodedParameter(type, value, typesLength) ==
    CASE type = "address" ->
            Return(padLeft(replace0x(toLowerCase(StringOf(value))), 64))
      [] type \in {"uint256", "uint"} -> HexWord(ToBigInt(value))
      [] type = "bool" ->
            Return(padLeft(IF Truthy(value) THEN <<"1">> ELSE <<"0">>, 64))
      [] type = "bytes32" -> Return(padLeft(replace0x(StringOf(value)), 64))
      [] type \in {"string", "bytes"} ->
            Return(padLeft(SmallToBase(typesLength * 32, 16, 1), 64))
      [] OTHER -> Return(<<>>)

\* encodeParameters(types, values), from parameter i on
RECURSIVE EncodeParametersFrom(_, _, _, _)
RECURSIVE EncodedAppended(_, _, _, _, _)
EncodeParametersFrom(types, values, i, encoded) ==
    IF i > Len(types) THEN Return(encoded)
    ELSE EncodedAppended(types, values, i, encoded,
                         EncodedParameter(types[i], ValueAt(values, i), Len(types)))
EncodedAppended(types, values, i, encoded, word) ==
    IF word.ok THEN EncodeParametersFrom(types, values, i + 1, encoded \o word.value)
    ELSE word
encodeParameters(types, values) == EncodeParametersFrom(types, values, 1, <<>>)

\* functionSelector + encodedParams
Calldata(selector, encodedParams) ==
    IF encodedParams.ok THEN Return(Text(selector \o encodedParams.value))
    ELSE encodedParams

\* encodeFunctionCall(functionName, types, values)
encodeFunctionCall(functionName, types, values) ==
    Calldata(getFunctionSelector(functionName, types), encodeParameters(types, values))

\* createFunctionSelector(signature) of helpers.ts
createFunctionSelector(signature) == <<"0", "x">> \o slice(sha3_256(signature), 0, 8)

\* the table `signatures` of encodeFunctionData
signatures ==
    [balanceOf |-> <<"address">>,
     transfer |-> <<"address", "uint256">>,
     approve |-> <<"address", "uint256">>,
     allowance |-> <<"address", "address">>,
     totalSupply |-> <<>>,
     decimals |-> <<>>,
     name |-> <<>>,
     symbol |-> <<>>]

\* one round of the loop of encodeFunctionData
EncodedDataParameter(type, value) ==
    CASE type = "address" ->
            Return(padLeft(replace0x(toLowerCase(StringOf(value))), 64))
      [] type = "uint256" -> HexWord(ToBigInt(value))
      [] OTHER -> Return(<<>>)

RECURSIVE EncodeDataFrom(_, _, _, _)
RECURSIVE EncodedDataAppended(_, _, _, _, _)
EncodeDataFrom(types, params, i, encodedParams) ==
    IF i > Len(types) THEN Return(encodedParams)
    ELSE EncodedDataAppended(types, params, i, encodedParams,
                             EncodedDataParameter(types[i], ValueAt(params, i)))
EncodedDataAppended(types, params, i, encodedParams, word) ==
    IF word.ok THEN EncodeDataFrom(types, params, i + 1, encodedParams \o word.value)
    ELSE word

\* encodeFunctionData(functionName, params)
encodeFunctionData(functionName, params) ==
    IF functionName \notin DOMAIN signatures
    THEN Throw(<<"Unknown function: ", functionName>>)
    ELSE Calldata(createFunctionSelector(Signature(functionName, signatures[functionName])),
                  EncodeDataFrom(signatures[functionName], params, 1, <<>>))

\* BigInt('0x' + digits).toString(), or what BigInt throws
DecimalOfHex(digits) == BigIntText(StringToBigInt(<<"0", "x">> \o digits), 10, <<>>)

\* one round of the loop of decodeResult: the value pushed, if any, and the
\* offset after it
DecodedValue(data, type, offset) ==
    CASE type = "address" ->
            Return([pushed |-> <<Text(<<"0", "x">> \o slice(data, offset + 24, offset + 64))>>,
                    offset |-> offset + 64])
      [] type \in {"uint256", "uint"} ->
            (LET decimal == DecimalOfHex(slice(data, offset, offset + 64))
             IN  IF decimal.ok
                 THEN Return([pushed |-> <<Text(decimal.value)>>, offset |-> offset + 64])
                 ELSE decimal)
      [] type = "bool" ->
            Return([pushed |-> <<Bool(slice(data, offset + 63, offset + 64) = <<"1">>)>>,
                    offset |-> offset + 64])
      [] type = "bytes32" ->
            Return([pushed |-> <<Text(<<"0", "x">> \o slice(data, offset, offset + 64))>>,
                    offset |-> offset + 64])
      [] OTHER -> Return([pushed |-> <<>>, offset |-> offset])

RECURSIVE DecodeFrom(_, _, _, _, _)
RECURSIVE DecodedPushed(_, _, _, _, _)
DecodeFrom(data, types, i, offset, results) ==
    IF i > Len(types) THEN Return(results)
    ELSE DecodedPushed(data, types, i, results, DecodedValue(data, types[i], offset))
DecodedPushed(data, types, i, results, decoded) ==
    IF decoded.ok
    THEN DecodeFrom(data, types, i + 1, decoded.value.offset,
                    results \o decoded.value.pushed)
    ELSE decoded

\* decodeResult(hexResult, types)
decodeResult(hexResult, types) == DecodeFrom(replace0x(hexResult), types, 1, 0, <<>>)

\* decodeUint256(hex)
TextOf(outcome) == IF outcome.ok THEN Return(Text(outcome.value)) ELSE outcome
decodeUint256(hex) == TextOf(DecimalOfHex(replace0x(hex)))

\* decodeAddress(hex)
decodeAddress(hex) ==
    Return(Text(<<"0", "x">> \o toLowerCase(sliceLast(replace0x(hex), 40))))

----------------------------------------------------------------------------
(* The encoders and decoders as operations: an encoding of a call drawn    *)
(* from the calls below, or a decoding of the parameter data of the        *)
(* calldata just produced.                                                 *)

\* 2^256 - 1 and 2^256
MaxUint256Text ==
    <<"1", "1", "5", "7", "9", "2", "0", "8", "9", "2", "3", "7", "3", "1",
      "6", "1", "9", "5", "4", "2", "3", "5", "7", "0", "9", "8", "5",
      "0", "0", "8", "6", "8", "7", "9", "0", "7", "8", "5", "3", "2",
      "6", "9", "9", "8", "4", "6", "6", "5", "6", "4", "0", "5", "6",
      "4", "0", "3", "9", "4", "5", "7", "5", "8", "4", "0", "0", "7",
      "9", "1", "3", "1", "2", "9", "6", "3", "9", "9", "3", "5">>
TwoTo256Text ==
    <<"1", "1", "5", "7", "9", "2", "0", "8", "9", "2", "3", "7", "3", "1",
      "6", "1", "9", "5", "4", "2", "3", "5", "7", "0", "9", "8", "5",
      "0", "0", "8", "6", "8", "7", "9", "0", "7", "8", "5", "3", "2",
      "6", "9", "9", "8", "4", "6", "6", "5", "6", "4", "0", "5", "6",
      "4", "0", "3", "9", "4", "5", "7", "5", "8", "4", "0", "0", "7",
      "9", "1", "3", "1", "2", "9", "6", "3", "9", "9", "3", "6">>
SomeBytes32 == SomeTransactionHash

\* the values a caller passes for a parameter of each type: well-formed
\* ones and, for the integers, a negative one and one of 257 bits
ParameterValues ==
    [address |-> {Text(CeloTokenAddress), Text(toLowerCase(CUSDAddress))},
     uint256 |-> {Text(<<"0">>), Text(<<"2", "5", "5">>), Text(MaxUint256Text),
                  Text(<<"-", "1">>), Text(TwoTo256Text)},
     uint |-> {Text(<<"1", "0", "0", "0">>), Text(<<"0", "x", "f", "f">>)},
     bool |-> {Bool(TRUE), Bool(FALSE)},
     bytes32 |-> {Text(SomeBytes32)},
     string |-> {Text(<<"c", "e", "l", "o">>)},
     bytes |-> {Text(<<"0", "x", "1", "2", "3", "4">>)},
     uint8 |-> {Text(<<"7">>)}]

\* the value lists of a list of types
ValueLists(types) ==
    {values \in [DOMAIN types -> UNION Range(ParameterValues)] :
        \A k \in DOMAIN types : values[k] \in ParameterValues[types[k]]}

\* the functions a caller encodes a call of
CallSignatures == {row[1] : row \in Sha3Digests}
DataFunctionNames == DOMAIN signatures \cup {"mint"}

EncodeCall(fn, functionName, types, values) ==
    [fn |-> fn, functionName |-> functionName, types |-> types, values |-> values]

EncodeFunctionCall ==
    /\ \E signature \in CallSignatures : \E values \in ValueLists(signature.types) :
          /\ query' = EncodeCall("encodeFunctionCall", signature.name,
                                 signature.types, values)
          /\ answer' = encodeFunctionCall(signature.name, signature.types, values)
    /\ UNCHANGED <<credentials, now, calls, httpLog, exec, trigger>>

\* the types encodeFunctionData encodes the parameters of functionName as
DataTypes(functionName) ==
    IF functionName \in DOMAIN signatures THEN signatures[functionName] ELSE <<>>

EncodeFunctionData ==
    /\ \E functionName \in DataFunctionNames :
       \E params \in ValueLists(DataTypes(functionName)) :
          /\ query' = EncodeCall("encodeFunctionData", functionName,
                                 DataTypes(functionName), params)
          /\ answer' = encodeFunctionData(functionName, params)
    /\ UNCHANGED <<credentials, now, calls, httpLog, exec, trigger>>

\* an encoding that returned calldata
Encoded ==
    /\ query.fn \in {"encodeFunctionCall", "encodeFunctionData"}
    /\ answer.ok

\* the calldata after its selector
ParameterData(calldata) == SubSeq(calldata, 11, Len(calldata))

Decoding(fn, hex) == [fn |-> fn, hex |-> hex, encoded |-> query]

DecodeResult ==
    /\ Encoded
    /\ query' = Decoding("decodeResult", ParameterData(answer.value.v))
    /\ answer' = decodeResult(ParameterData(answer.value.v), query.types)
    /\ UNCHANGED <<credentials, now, calls, httpLog, exec, trigger>>

DecodeAddress ==
    /\ Encoded
    /\ query.types = <<"address">>
    /\ query' = Decoding("decodeAddress", ParameterData(answer.value.v))
    /\ answer' = decodeAddress(ParameterData(answer.value.v))
    /\ UNCHANGED <<credentials, now, calls, httpLog, exec, trigger>>

DecodeUint256 ==
    /\ Encoded
    /\ Len(query.types) = 1
    /\ query.types[1] \in {"uint256", "uint"}
    /\ query' = Decoding("decodeUint256", ParameterData(answer.value.v))
    /\ answer' = decodeUint256(ParameterData(answer.value.v))
    /\ UNCHANGED <<credentials, now, calls, httpLog, exec, trigger>>

GetFunctionSelector ==
    /\ \E signature \in CallSignatures :
          /\ query' = [fn |-> "getFunctionSelector", signature |-> signature]
          /\ answer' = Return(getFunctionSelector(signature.name, signature.types))
    /\ UNCHANGED <<credentials, now, calls, httpLog, exec, trigger>>

CreateFunctionSelector ==
    /\ \E signature \in CallSignatures :
          /\ query' = [fn |-> "createFunctionSelector", signature |-> signature]
          /\ answer' = Return(createFunctionSelector(signature))
    /\ UNCHANGED <<credentials, now, calls, httpLog, exec, trigger>>

\* the data a contract call returned: three words, an address, 1000 and 1
ReturnData ==
    <<"0", "x">> \o padLeft([k \in 1..40 |-> IF k % 2 = 1 THEN "a" ELSE "b"], 64)
                 \o padLeft(<<"3", "e", "8">>, 64) \o padLeft(<<"1">>, 64)

\* the types a caller asks decodeResult for: up to MaxTypes of them
MaxTypes == 2
ReturnTypes == {"address", "uint256", "bool", "bytes32", "uint8", "string"}
ReturnTypeLists == UNION {[1..n -> ReturnTypes] : n \in 1..MaxTypes}

DecodeReturnData ==
    /\ \E types \in ReturnTypeLists :
          /\ query' = [fn |-> "decodeResult", hex |-> ReturnData, types |-> types]
          /\ answer' = decodeResult(ReturnData, types)
    /\ UNCHANGED <<credentials, now, calls, httpLog, exec, trigger>>

InitCodec ==
    /\ credentials = Credentials("mainnet", Str(""), Str(""), Str(""))
    /\ now = 0
    /\ calls = <<>>
    /\ httpLog = <<>>
    /\ query = NoQuery
    /\ answer = Return(Undefined)
    /\ exec = NoExec
    /\ trigger = NoTrigger

NextCodec ==
    \/ EncodeFunctionCall
    \/ EncodeFunctionData
    \/ DecodeResult
    \/ DecodeAddress
    \/ DecodeUint256
    \/ GetFunctionSelector
    \/ CreateFunctionSelector
    \/ DecodeReturnData

SpecCodec == InitCodec /\ [][NextCodec]_vars

----------------------------------------------------------------------------
(* Amounts and units: formatUnits of transport/celoClient.ts, convertUnits *)
(* and formatTokenAmount of utils/helpers.ts.                              *)

\* a < b for magnitudes without leading zeros
LessMagnitude(a, b) ==
    \/ Len(a) < Len(b)
    \/ /\ Len(a) = Len(b)
       /\ \E k \in DOMAIN a : a[k] < b[k] /\ \A j \in 1..(k - 1) : a[j] = b[j]

\* a magnitude with zeros in front, `length` digits long
LeadingZeros(ds, length) == [k \in 1..(length - Len(ds)) |-> 0] \o ds

\* the digits of a + b + carry for two magnitudes of one length, least
\* significant first, and the carry out of them
RECURSIVE AddCarry(_, _, _)
RECURSIVE AddCarryLeft(_, _, _)
AddCarryJoin(right, left) == [low |-> right.low \o left.low, carry |-> left.carry]
AddCarry(a, b, carry) ==
    IF a = <<>> THEN [low |-> <<>>, carry |-> carry]
    ELSE IF Len(a) = 1
    THEN [low |-> <<(a[1] + b[1] + carry) % 10>>, carry |-> (a[1] + b[1] + carry) \div 10]
    ELSE AddCarryLeft(a, b, AddCarry(SubSeq(a, Len(a) \div 2 + 1, Len(a)),
                                     SubSeq(b, Len(a) \div 2 + 1, Len(a)), carry))
AddCarryLeft(a, b, right) ==
    AddCarryJoin(right, AddCarry(SubSeq(a, 1, Len(a) \div 2),
                                 SubSeq(b, 1, Len(a) \div 2), right.carry))

\* a + b
PlusAligned(a, b) == StripZeros(CarryFirst(AddCarry(a, b, 0)))
Plus(a, b) ==
    IF Len(a) >= Len(b) THEN PlusAligned(a, LeadingZeros(b, Len(a)))
    ELSE PlusAligned(LeadingZeros(a, Len(b)), b)

\* the digits of a - b - borrow for two magnitudes of one length, least
\* significant first, and the borrow out of them
RECURSIVE SubBorrow(_, _, _)
RECURSIVE SubBorrowLeft(_, _, _)
SubBorrowJoin(right, left) == [low |-> right.low \o left.low, borrow |-> left.borrow]
SubBorrow(a, b, borrow) ==
    IF a = <<>> THEN [low |-> <<>>, borrow |-> borrow]
    ELSE IF Len(a) = 1
    THEN [low |-> <<(a[1] - b[1] - borrow + 10) % 10>>,
          borrow |-> IF a[1] - b[1] - borrow < 0 THEN 1 ELSE 0]
    ELSE SubBorrowLeft(a, b, SubBorrow(SubSeq(a, Len(a) \div 2 + 1, Len(a)),
                                       SubSeq(b, Len(a) \div 2 + 1, Len(a)), borrow))
SubBorrowLeft(a, b, right) ==
    SubBorrowJoin(right, SubBorrow(SubSeq(a, 1, Len(a) \div 2),
                                   SubSeq(b, 1, Len(a) \div 2), right.borrow))

\* a - b for a >= b
Minus(a, b) == StripZeros(Reverse(SubBorrow(a, LeadingZeros(b, Len(a)), 0).low))

\* a * b: a times the high half of b, moved up by the length of the low
\* half, plus a times the low half
RECURSIVE Times(_, _)
Times(a, b) ==
    IF Len(b) = 1 THEN StripZeros(MulAdd(a, b[1], 0))
    ELSE Plus(StripZeros(Times(a, SubSeq(b, 1, Len(b) \div 2))
                         \o [k \in 1..(Len(b) - Len(b) \div 2) |-> 0]),
              Times(a, SubSeq(b, Len(b) \div 2 + 1, Len(b))))

\* long division of a by b > 0, with the multiples 0 * b .. 10 * b at hand:
\* quotient digits (leading zeros kept) and remainder
Multiples(b) == [k \in 0..10 |-> StripZeros(MulAdd(b, k, 0))]
DivDigitRest(cur, multiples, k) == [q |-> <<k>>, r |-> Minus(cur, multiples[k])]
DivDigit(cur, multiples) ==
    DivDigitRest(cur, multiples,
                 CHOOSE k \in 0..9 :
                    /\ ~LessMagnitude(cur, multiples[k])
                    /\ LessMagnitude(cur, multiples[k + 1]))
RECURSIVE DivBig(_, _, _)
RECURSIVE DivBigRight(_, _, _)
DivBig(ds, multiples, rem) ==
    IF ds = <<>> THEN [q |-> <<>>, r |-> rem]
    ELSE IF Len(ds) = 1 THEN DivDigit(StripZeros(rem \o ds), multiples)
    ELSE DivBigRight(ds, multiples, DivBig(SubSeq(ds, 1, Len(ds) \div 2), multiples, rem))
DivBigRight(ds, multiples, left) ==
    DivSmallJoin(left, DivBig(SubSeq(ds, Len(ds) \div 2 + 1, Len(ds)), multiples, left.r))
DivMod(a, b) == DivBig(a, Multiples(b), <<0>>)

\* 10^n, and its decimal text
PowerOfTen(n) == <<1>> \o [k \in 1..n |-> 0]
PowerOfTen_Text(n) == <<"1">> \o [k \in 1..n |-> "0"]

\* BigInt(10 ** decimals): 10 ** decimals is a double. Up to 10^22 the power
\* is a double; 10^23 is not, and the result is one of the two doubles next
\* to it, whichever the engine's pow gives.
FloatPowersOfTen(decimals) ==
    IF decimals <= 22 THEN {PowerOfTen(decimals)}
    ELSE {FromDecimal(<<"9", "9", "9", "9", "9", "9", "9", "9", "9", "9", "9", "9",
                        "9", "9", "9", "9", "1", "6", "1", "1", "3", "9", "2">>),
          FromDecimal(<<"1", "0", "0", "0", "0", "0", "0", "0", "0", "0", "0", "0",
                        "0", "0", "0", "0", "0", "8", "3", "8", "8", "6", "0", "8">>)}

\* text.replace(/0+$/, '')
trimTrailingZeros(text) ==
    IF \A k \in DOMAIN text : text[k] = "0" THEN <<>>
    ELSE SubSeq(text, 1, CHOOSE k \in DOMAIN text :
                            text[k] # "0" /\ \A j \in (k + 1)..Len(text) : text[j] = "0")

\* value / divisor and value % divisor on BigInts, divisor > 0, from the
\* long division of the magnitudes: the quotient is cut towards zero and
\* the remainder has the sign of value
BigQuotient(value, divided) == BigIntValue(value.neg, StripZeros(divided.q))
BigRemainder(value, divided) == BigIntValue(value.neg, divided.r)

\* the rendering formatUnits and formatBigIntWithDecimals share: the integer
\* part alone when the fractional part is 0n, otherwise
\* `${integerPart}.${trimmedFractional}`
Rendered(integerPart, fractionalPart, decimals) ==
    IF fractionalPart.mag = <<0>> THEN BigIntToString(integerPart, 10)
    ELSE BigIntToString(integerPart, 10) \o <<".">> \o
         trimTrailingZeros(padLeft(BigIntToString(fractionalPart, 10), decimals))
RenderedDivision(value, divided, decimals) ==
    Rendered(BigQuotient(value, divided), BigRemainder(value, divided), decimals)

\* formatBigIntWithDecimals(value, decimals), divisor being BigInt(10 ** decimals)
formatBigIntWithDecimals(value, decimals, divisor) ==
    RenderedDivision(value, DivMod(value.mag, divisor), decimals)

\* formatUnits(value, decimals), divisor being BigInt(10 ** decimals)
FormattedBigInt(valueBigInt, decimals, divisor) ==
    IF ~valueBigInt.ok THEN valueBigInt
    ELSE IF valueBigInt.value.mag = <<0>> THEN Return(<<"0">>)
    ELSE Return(formatBigIntWithDecimals(valueBigInt.value, decimals, divisor))
formatUnits(value, decimals, divisor) ==
    FormattedBigInt(StringToBigInt(value), decimals, divisor)

\* text.slice(0, -count): slice(0, -0) is slice(0, 0), the empty text
sliceOffEnd(text, count) ==
    IF count = 0 \/ count >= Len(text) THEN <<>>
    ELSE SubSeq(text, 1, Len(text) - count)

\* formatTokenAmount(value, decimals)
TokenAmount(integerPart, trimmedFractional) ==
    IF trimmedFractional = <<>> THEN integerPart
    ELSE integerPart \o <<".">> \o trimmedFractional
OrZero(text) == IF text = <<>> THEN <<"0">> ELSE text
PaddedTokenAmount(paddedValue, decimals) ==
    TokenAmount(OrZero(sliceOffEnd(paddedValue, decimals)),
                trimTrailingZeros(sliceLast(paddedValue, decimals)))
formatTokenAmount(value, decimals) ==
    IF value = <<"0">> \/ value = <<>> THEN Return(<<"0">>)
    ELSE Return(PaddedTokenAmount(padLeft(value, decimals + 1), decimals))

\* convertUnits(value, fromUnit): the exponents of BigInt(10 ** 9) and
\* BigInt(10 ** 18)
UnitExponents == [wei |-> 0, gwei |-> 9, celo |-> 18]
UnitConversion(weiValue) ==
    Return([wei |-> BigIntToString(weiValue, 10),
            gwei |-> BigIntToString(BigQuotient(weiValue,
                                                DivMod(weiValue.mag, PowerOfTen(9))), 10),
            celo |-> formatBigIntWithDecimals(weiValue, 18, PowerOfTen(18))])
WeiValue(valueBigInt, fromUnit) ==
    IF fromUnit = "wei" THEN valueBigInt
    ELSE BigIntValue(valueBigInt.neg,
                     Times(valueBigInt.mag, PowerOfTen(UnitExponents[fromUnit])))
ConvertedBigInt(valueBigInt, fromUnit) ==
    IF ~valueBigInt.ok THEN valueBigInt
    ELSE IF fromUnit \notin DOMAIN UnitExponents
    THEN Throw(<<"Unknown unit: ", fromUnit>>)
    ELSE UnitConversion(WeiValue(valueBigInt.value, fromUnit))
convertUnits(value, fromUnit) ==
    ConvertedBigInt(StringToBigInt(SplitAmount(value).integerPart), fromUnit)

----------------------------------------------------------------------------
(* The unit functions as operations, on amounts and decimals counts drawn  *)
(* from the sets below; parseUnits is applied to what formatUnits returned.*)

\* base amounts: 0, small ones, 10^6, 1.5 * 10^18 and 10^23
BaseAmounts ==
    {<<"0">>, <<"1">>, <<"5">>, <<"1", "0">>, <<"1", "2", "3", "4", "5">>,
     PowerOfTen_Text(6), <<"1", "5">> \o Tail(PowerOfTen_Text(17)),
     PowerOfTen_Text(23)}
DecimalsCounts == {0, 1, 6, 18, 23}

\* amounts in a unit: whole ones and one with a fractional part
UnitAmounts ==
    {<<"0">>, <<"1">>, <<"1", ".", "5">>, PowerOfTen_Text(9), PowerOfTen_Text(18),
     <<"1", "2", "3", "4", "5", "6", "7", "8", "9", "0", "1", "2">>}
Units == {"wei", "gwei", "celo", "ether"}

Formatting(fn, value, decimals) == [fn |-> fn, value |-> value, decimals |-> decimals]

FormatUnits ==
    /\ \E value \in BaseAmounts : \E decimals \in DecimalsCounts :
       \E divisor \in FloatPowersOfTen(decimals) :
          /\ query' = Formatting("formatUnits", value, decimals)
          /\ answer' = formatUnits(value, decimals, divisor)
    /\ UNCHANGED <<credentials, now, calls, httpLog, exec, trigger>>

FormatTokenAmount ==
    /\ \E value \in BaseAmounts : \E decimals \in DecimalsCounts :
          /\ query' = Formatting("formatTokenAmount", value, decimals)
          /\ answer' = formatTokenAmount(value, decimals)
    /\ UNCHANGED <<credentials, now, calls, httpLog, exec, trigger>>

ParseUnits ==
    /\ query.fn = "formatUnits"
    /\ answer.ok
    /\ query' = [fn |-> "parseUnits", value |-> answer.value,
                 decimals |-> query.decimals, formatted |-> query]
    /\ answer' = parseUnits(answer.value, query.decimals)
    /\ UNCHANGED <<credentials, now, calls, httpLog, exec, trigger>>

ConvertUnits ==
    /\ \E value \in UnitAmounts : \E fromUnit \in Units :
          /\ query' = [fn |-> "convertUnits", value |-> value, fromUnit |-> fromUnit]
          /\ answer' = convertUnits(value, fromUnit)
    /\ UNCHANGED <<credentials, now, calls, httpLog, exec, trigger>>

\* toHex(value) for a value: a string or a number
toHexValue(value) ==
    IF value.t = "text" THEN toHex(value.v) ELSE toHexNumber(value)

\* what toHex is given: numbers, decimal strings, 0x strings with and
\* without leading zeros, and strings that write no integer
HexInputs ==
    {Num(0), Num(100), Num(255),
     Text(<<"0">>), Text(<<"1", "0", "0">>), Text(<<"0", "0", "7">>),
     Text(PowerOfTen_Text(23)),
     Text(<<"0", "x", "0">>), Text(<<"0", "x", "6", "4">>),
     Text(<<"0", "x", "0", "0", "f", "f">>), Text(<<"0", "x", "0", "a">>),
     Text(<<"0", "X", "1", "f">>),
     Text(<<"0", "x">>), Text(<<"a", "b", "c">>)}

ToHex ==
    /\ \E value \in HexInputs :
          /\ query' = [fn |-> "toHex", value |-> value]
          /\ answer' = toHexValue(value)
    /\ UNCHANGED <<credentials, now, calls, httpLog, exec, trigger>>

\* toHex applied to what toHex returned
ToHexAgain ==
    /\ query.fn = "toHex"
    /\ "first" \notin DOMAIN query
    /\ answer.ok
    /\ query' = [fn |-> "toHex", value |-> Text(answer.value), first |-> query]
    /\ answer' = toHexValue(Text(answer.value))
    /\ UNCHANGED <<credentials, now, calls, httpLog, exec, trigger>>

InitUnits ==
    /\ credentials = Credentials("mainnet", Str(""), Str(""), Str(""))
    /\ now = 0
    /\ calls = <<>>
    /\ httpLog = <<>>
    /\ query = NoQuery
    /\ answer = Return(Undefined)
    /\ exec = NoExec
    /\ trigger = NoTrigger

NextUnits ==
    \/ FormatUnits
    \/ FormatTokenAmount
    \/ ParseUnits
    \/ ConvertUnits
    \/ ToHex
    \/ ToHexAgain

SpecUnits == InitUnits /\ [][NextUnits]_vars

----------------------------------------------------------------------------
(* retryWithBackoff.  The call is split at its awaits: the promise of fn   *)
(* settles, the timer of sleep fires.  `query` holds the call in progress, *)
(* `answer` what its promise settled with.                                 *)

MaxRetries == 3
BaseDelays == {0, 250, 1000}

\* what an invocation of fn settles with: a value, or one of two errors,
\* marked with the invocation that threw it
FnOutcomes(invocation) ==
    {Return(Str("value"))}
    \cup {Throw([message |-> m, invocation |-> invocation]) : m \in {"timeout", "refused"}}

\* the promise of a call that has not settled
Pending == [settled |-> FALSE]

\* the head of the loop: i < maxRetries and the call of fn, or the
\* throw lastError after the loop
RetryLoop(retry) ==
    IF retry.i < retry.maxRetries
    THEN /\ query' = [retry EXCEPT !.pc = "fn", !.invoked = @ + 1]
         /\ answer' = Pending
    ELSE /\ query' = [retry EXCEPT !.pc = "done"]
         /\ answer' = Throw(retry.lastError)

\* retryWithBackoff(fn, maxRetries, baseDelay) up to its first await
retryWithBackoff ==
    /\ query.fn = "none" \/ (query.fn = "retryWithBackoff" /\ query.pc = "done")
    /\ \E maxRetries \in 0..MaxRetries : \E baseDelay \in BaseDelays :
          RetryLoop([fn |-> "retryWithBackoff", maxRetries |-> maxRetries,
                     baseDelay |-> baseDelay, i |-> 0, pc |-> "start",
                     invoked |-> 0, outcomes |-> <<>>, slept |-> <<>>,
                     lastError |-> Undefined])
    /\ UNCHANGED <<credentials, now, calls, httpLog, exec, trigger>>

\* the catch block: lastError = error, and the sleep unless this was the
\* last attempt
RetryCaught(retry) ==
    IF retry.i < retry.maxRetries - 1
    THEN /\ query' = [retry EXCEPT !.pc = "sleep",
                                   !.slept = Append(@, retry.baseDelay * 2 ^ retry.i)]
         /\ answer' = Pending
    ELSE RetryLoop([retry EXCEPT !.i = @ + 1])

\* the promise of fn() settles: return its value, or the catch block
FnSettles ==
    /\ query.fn = "retryWithBackoff"
    /\ query.pc = "fn"
    /\ \E outcome \in FnOutcomes(query.invoked) :
          IF outcome.ok
          THEN /\ query' = [query EXCEPT !.pc = "done",
                                         !.outcomes = Append(@, outcome)]
               /\ answer' = outcome
          ELSE RetryCaught([query EXCEPT !.outcomes = Append(@, outcome),
                                         !.lastError = outcome.error])
    /\ UNCHANGED <<credentials, now, calls, httpLog, exec, trigger>>

\* the timer of sleep fires: i++ and the head of the loop
SleepResolves ==
    /\ query.fn = "retryWithBackoff"
    /\ query.pc = "sleep"
    /\ RetryLoop([query EXCEPT !.i = @ + 1])
    /\ UNCHANGED <<credentials, now, calls, httpLog, exec, trigger>>

InitRetry ==
    /\ credentials = Credentials("mainnet", Str(""), Str(""), Str(""))
    /\ now = 0
    /\ calls = <<>>
    /\ httpLog = <<>>
    /\ query = NoQuery
    /\ answer = Return(Undefined)
    /\ exec = NoExec
    /\ trigger = NoTrigger

NextRetry ==
    \/ retryWithBackoff
    \/ FnSettles
    \/ SleepResolves

SpecRetry == InitRetry /\ [][NextRetry]_vars

\* every promise of fn settles and every timer fires
FairSpecRetry ==
    InitRetry /\ [][NextRetry]_vars /\ WF_vars(FnSettles) /\ WF_vars(SleepResolves)

----------------------------------------------------------------------------
(* CeloTrigger.poll.  A cycle is split at its awaits: the request for the  *)
(* block number, its answer and the request for the events, the answer to  *)
(* that, and for a token transfer with a Filter Address the second request *)
(* and its answer.  The chain grows in between.                            *)

\* the events a trigger watches in this model: one read from the explorer,
\* two read with eth_getLogs
PollEvents == {"newTransactionToAddress", "tokenTransfer", "governanceProposal"}

\* options.confirmations left out of toBlock
Confirmations_Ignored(options) == 0

\* Number(options.confirmations) || 1
Confirmations(options) ==
    IF Truthy(options.confirmations) THEN options.confirmations.v ELSE 1

\* what a finished cycle did: how it ended (result "null", "data" or
\* "thrown"), whether its catch block ran, the checkpoint it found, and the
\* range it queried, if it came to that
Cycle(result, caught, checkpoint, fromBlock, toBlock, emitted) ==
    [result |-> result, caught |-> caught, checkpoint |-> checkpoint,
     fromBlock |-> fromBlock, toBlock |-> toBlock, emitted |-> emitted]
NoCycle == Cycle("none", FALSE, Undefined, Undefined, Undefined, 0)

\* poll ends before its try block: by a return null, or by an error that
\* nothing catches
Ended(result) ==
    [trigger EXCEPT !.pc = "idle", !.call = 0,
                    !.fromBlock = Undefined, !.toBlock = Undefined,
                    !.returnData = <<>>,
                    !.cycle = Cycle(result, FALSE, trigger.webhookData.lastBlock,
                                    Undefined, Undefined, 0)]

\* poll ends after its try block: webhookData.lastBlock = toBlock, and the
\* items of returnData, if any, are returned
Checkpointed(caught, fromBlock, toBlock, returnData) ==
    [trigger EXCEPT !.pc = "idle", !.call = 0,
                    !.fromBlock = Undefined, !.toBlock = Undefined,
                    !.webhookData.lastBlock = toBlock,
                    !.returnData = returnData,
                    !.cycle = Cycle(IF Len(returnData) > 0 THEN "data" ELSE "null",
                                    caught, trigger.webhookData.lastBlock,
                                    fromBlock, toBlock, Len(returnData))]

----------------------------------------------------------------------------
(* The chain the trigger watches: the Transfer logs and the transactions   *)
(* of its blocks, the same in every run, and what an honest node and an    *)
(* honest explorer answer from them.                                       *)

\* an account, as the lower-case address that logs hold
Account(c) == <<"0", "x">> \o [k \in 1..40 |-> c]

\* the Filter Address a user types for the account `a`: upper-case digits
FilterAddressA == <<"0", "x">> \o [k \in 1..40 |-> "A"]

\* amounts in base units: n * 10^17
Tenths(n) == SmallToBase(n, 10, 1) \o [k \in 1..17 |-> "0"]

TransferTopic == "0xddf252ad1be2c89b69c2b068fc378daa952ba7f163c4a11628f55a4df523b3ef"

\* a Transfer(from, to, amount) log of the token contract `token`
TransferLog(blockNumber, token, from, to, amount, logIndex) ==
    [address |-> Str(token),
     topics |-> <<Str(TransferTopic),
                  Text(<<"0", "x">> \o padLeft(replace0x(from), 64)),
                  Text(<<"0", "x">> \o padLeft(replace0x(to), 64))>>,
     data |-> Text(<<"0", "x">> \o padLeft(ToBase(FromDecimal(amount), 16), 64)),
     blockNumber |-> Text(<<"0", "x">> \o SmallToBase(blockNumber, 16, 1)),
     logIndex |-> logIndex]

\* the Transfer logs of the chain, oldest first: cUSD from a to b, from b to
\* a (half a unit), from a to itself, from c to a, a CELO transfer between b
\* and c, and a cUSD transfer in a block that follows the first head
ChainLogs ==
    <<TransferLog(FirstHead - 50, STABLECOINS.cUSD.mainnet,
                  Account("a"), Account("b"), Tenths(20), 1),
      TransferLog(FirstHead - 49, STABLECOINS.cUSD.mainnet,
                  Account("b"), Account("a"), Tenths(5), 2),
      TransferLog(FirstHead - 48, STABLECOINS.cUSD.mainnet,
                  Account("a"), Account("a"), Tenths(10), 3),
      TransferLog(FirstHead - 47, STABLECOINS.cUSD.mainnet,
                  Account("c"), Account("a"), Tenths(30), 4),
      TransferLog(FirstHead - 46, CELO_CONTRACTS.mainnet.GoldToken,
                  Account("b"), Account("c"), Tenths(30), 5),
      TransferLog(FirstHead + 1, STABLECOINS.cUSD.mainnet,
                  Account("a"), Account("b"), Tenths(10), 6)>>

\* the transactions to the watched address, oldest first: 2 CELO, 0.1 CELO,
\* and 5 CELO in a block that follows the first head
Transaction(blockNumber, value) ==
    [blockNumber |-> Text(SmallToBase(blockNumber, 10, 1)), value |-> Text(value)]
ChainTransactions ==
    <<Transaction(FirstHead - 40, Tenths(20)),
      Transaction(FirstHead - 39, Tenths(1)),
      Transaction(FirstHead + 1, Tenths(50))>>

\* an array with its elements
Listed(items) == [t |-> "array", len |-> Len(items), items |-> items]

\* the number written by decimal digits
RECURSIVE NatOfDecimal(_, _)
NatOfDecimal(digits, acc) ==
    IF digits = <<>> THEN acc
    ELSE NatOfDecimal(Tail(digits), acc * 10 + DigitValue(digits[1]))

\* the logs of the chain that a filter selects: those of its block range,
\* of its address when it names one, with its topics where they are not null
LogSelected(filter, log) ==
    /\ NumLeq(ParseInt16(Text(filter.fromBlock)), ParseInt16(log.blockNumber))
    /\ NumLeq(ParseInt16(log.blockNumber), ParseInt16(Text(filter.toBlock)))
    /\ filter.address # Undefined => log.address = filter.address
    /\ \A k \in DOMAIN filter.topics :
          filter.topics[k] # Null => log.topics[k] = filter.topics[k]
LogsInFilter(filter) ==
    LET Selected(log) == LogSelected(filter, log)
    IN  SelectSeq(ChainLogs, Selected)

\* the transactions of the chain between startblock and endblock; a bound
\* that is not a number is not applied
BlockBound(text) ==
    IF text # <<>> /\ AllIn(text, DecimalDigitChars) THEN Num(NatOfDecimal(text, 0))
    ELSE NaN
TransactionsInRange(params) ==
    LET Selected(tx) ==
           /\ BlockBound(params.startblock).t = "number"
              => NumLeq(BlockBound(params.startblock), BlockBound(tx.blockNumber.v))
           /\ BlockBound(params.endblock).t = "number"
              => NumLeq(BlockBound(tx.blockNumber.v), BlockBound(params.endblock))
    IN  SelectSeq(ChainTransactions, Selected)

----------------------------------------------------------------------------
(* poll, statement by statement.                                           *)

\* a request of poll, as far as its await: pending, or failed before it
Requested(s) ==
    Ran(s.calls, s.log,
        IF s.calls[Len(s.calls)].status = "failed"
        THEN Throw(s.calls[Len(s.calls)].error)
        ELSE Return(Undefined))

\* getLogs with the filter built from the range; toHex is evaluated first
LogsRequested(cs, log, creds, hexFrom, hexTo, t) ==
    IF ~hexFrom.ok THEN Ran(cs, log, hexFrom)
    ELSE IF ~hexTo.ok THEN Ran(cs, log, hexTo)
    ELSE Requested(StartRpc(cs, log, creds, "eth_getLogs",
                            <<[fromBlock |-> hexFrom.value, toBlock |-> hexTo.value]>>, 0, t))

\* tokenAddress of the tokenTransfer branch: none for 'any' (a custom token
\* is not among the triggers of this model)
TokenAddress(tokenType, network) ==
    CASE tokenType = "celo" ->
           Str(IF network = "mainnet" \/ network = "custom"
               THEN CELO_CONTRACTS.mainnet.GoldToken
               ELSE CELO_CONTRACTS.alfajores.GoldToken)
      [] tokenType \in {"cUSD", "cEUR", "cREAL"} ->
           Str(IF network = "mainnet" \/ network = "custom"
               THEN STABLECOINS[tokenType].mainnet
               ELSE STABLECOINS[tokenType].alfajores)
      [] OTHER -> Undefined

\* '0x' + filterAddress.toLowerCase().replace('0x', '').padStart(64, '0')
paddedAddress(filterAddress) ==
    Text(<<"0", "x">> \o padLeft(replace0x(toLowerCase(filterAddress)), 64))

\* the filter of the tokenTransfer branch
TransferFilter(hexFrom, hexTo, tokenAddress, fromTopic, toTopic) ==
    [fromBlock |-> hexFrom, toBlock |-> hexTo, address |-> tokenAddress,
     topics |-> <<Str(TransferTopic), fromTopic, toTopic>>]

\* the first getLogs of the tokenTransfer branch: topics[1] is the padded
\* Filter Address when one is set
TransfersRequested(cs, log, creds, hexFrom, hexTo, tokenAddress, filterAddress, t) ==
    IF ~hexFrom.ok THEN Ran(cs, log, hexFrom)
    ELSE IF ~hexTo.ok THEN Ran(cs, log, hexTo)
    ELSE Requested(StartRpc(cs, log, creds, "eth_getLogs",
                            <<TransferFilter(hexFrom.value, hexTo.value, tokenAddress,
                                             IF Truthy(filterAddress)
                                             THEN paddedAddress(filterAddress.v)
                                             ELSE Null,
                                             Null)>>,
                            0, t))

\* the first statement of the branch of the try block for `event`, as far
\* as its await
EventsRequested(event, cs, log, creds, fromBlock, toBlock, t) ==
    CASE event = "newTransactionToAddress" ->
           Requested(StartExplorer(cs, log, creds,
                                   [module |-> "account", action |-> "txlist",
                                    startblock |-> NumberToString(fromBlock),
                                    endblock |-> NumberToString(toBlock), sort |-> "asc"],
                                   0))
      [] event = "tokenTransfer" ->
           TransfersRequested(cs, log, creds, toHexNumber(fromBlock), toHexNumber(toBlock),
                              TokenAddress(trigger.tokenType, creds.network),
                              trigger.filterAddress, t)
      [] OTHER ->
           LogsRequested(cs, log, creds, toHexNumber(fromBlock), toHexNumber(toBlock), t)

\* poll from the try block to the await of the events, or to its end when
\* the request failed before it was sent
TryEntered(run, fromBlock, toBlock) ==
    /\ calls' = run.calls
    /\ httpLog' = run.log
    /\ trigger' = IF run.outcome.ok
                  THEN [trigger EXCEPT !.pc = "events", !.call = Len(run.calls),
                                       !.fromBlock = fromBlock, !.toBlock = toBlock]
                  ELSE Checkpointed(TRUE, fromBlock, toBlock, <<>>)

\* poll returns null without a query
ReturnedEarly(cs) ==
    /\ calls' = cs
    /\ UNCHANGED httpLog
    /\ trigger' = Ended("null")

\* poll with fromBlock and toBlock computed
RangeChosen(cs, fromBlock, toBlock) ==
    IF NumLeq(toBlock, fromBlock) THEN ReturnedEarly(cs)
    ELSE TryEntered(EventsRequested(trigger.event, cs, httpLog, credentials,
                                    fromBlock, toBlock, now),
                    fromBlock, toBlock)

\* poll with currentBlock and lastBlock computed
BlocksRead(cs, currentBlock, lastBlock) ==
    IF NumLeq(currentBlock, lastBlock) THEN ReturnedEarly(cs)
    ELSE RangeChosen(cs,
                     NumMax(NumAdd(lastBlock, 1), NumAdd(currentBlock, -RangeLimit)),
                     NumAdd(currentBlock, -Confirmations(trigger.options)))

\* poll with currentBlock computed:
\* lastBlock = webhookData.lastBlock || currentBlock - 100
CurrentBlockRead(cs, currentBlock) ==
    BlocksRead(cs, currentBlock,
               IF Truthy(trigger.webhookData.lastBlock)
               THEN trigger.webhookData.lastBlock
               ELSE NumAdd(currentBlock, -LookBack))

\* poll resumed with the answer to eth_blockNumber; a failure is outside the
\* try block
BlockNumberResumed(cs, outcome) ==
    IF ~outcome.ok
    THEN /\ calls' = cs
         /\ UNCHANGED httpLog
         /\ trigger' = Ended("thrown")
    ELSE CurrentBlockRead(cs, ParseInt16(outcome.value))

\* poll(): as far as await getBlockNumber
PollStarted(s) ==
    /\ calls' = s.calls
    /\ httpLog' = s.log
    /\ trigger' = IF s.calls[Len(s.calls)].status = "failed"
                  THEN [Ended("thrown") EXCEPT !.cycles = @ + 1]
                  ELSE [trigger EXCEPT !.pc = "getBlockNumber", !.call = Len(s.calls),
                                       !.returnData = <<>>,
                                       !.cycles = @ + 1]

poll ==
    /\ trigger.pc = "idle"
    /\ trigger.cycles < MaxPolls
    /\ PollStarted(StartRpc(calls, httpLog, credentials, "eth_blockNumber", <<>>, 0, now))
    /\ UNCHANGED <<credentials, now, query, answer, exec>>

\* the node answers eth_blockNumber
PollBlockNumber(a) ==
    /\ trigger.pc = "getBlockNumber"
    /\ BlockNumberResumed(
          [calls EXCEPT ![trigger.call] =
              Completed(@, BlockNumberAnswer(trigger.head, a),
                        RpcOutcome(BlockNumberAnswer(trigger.head, a)))],
          RpcOutcome(BlockNumberAnswer(trigger.head, a)))
    /\ UNCHANGED <<credentials, now, query, answer, exec>>

\* the request of the cycle that waits for its answer
PendingRequest == httpLog[CHOOSE r \in DOMAIN httpLog : httpLog[r].call = trigger.call]

\* the answers to the request for the events.  To an answer with a value
\* the explorer gives the transactions of the range asked for, the node the
\* logs of the filter (for a governance filter, some log)
EventAnswers(event) ==
    IF event = "newTransactionToAddress" THEN ExplorerAnswers ELSE NodeAnswers
LogsResponse(request, a) ==
    IF a = "value" /\ "topics" \in DOMAIN request.body.params[1]
    THEN [result |-> Listed(LogsInFilter(request.body.params[1])), error |-> Undefined]
    ELSE NodeAnswer("eth_getLogs", a)
EventsResponse(event, a) ==
    IF event = "newTransactionToAddress"
    THEN IF a = "list"
         THEN [status |-> Str("1"), message |-> Str("OK"),
               result |-> Listed(TransactionsInRange(PendingRequest.qs.params))]
         ELSE ExplorerAnswer(a)
    ELSE LogsResponse(PendingRequest, a)
EventsOutcome(event, response) ==
    IF event = "newTransactionToAddress" THEN ExplorerOutcome(response)
    ELSE RpcOutcome(response)

\* a < b for two BigInts
BigIntLess(a, b) ==
    IF a.neg # b.neg THEN a.neg
    ELSE IF a.neg THEN LessMagnitude(b.mag, a.mag)
    ELSE LessMagnitude(a.mag, b.mag)

\* BigInt(options.minValue ? String(options.minValue) : '0')
MinValue(options) ==
    StringToBigInt(IF Truthy(options.minValue) THEN options.minValue.v ELSE <<"0">>)

\* minValue > BigInt(0) && value < minValue * BigInt(10 ** 18)
BelowMinimum(value, minValue) ==
    /\ BigIntLess(BigIntValue(FALSE, <<0>>), minValue)
    /\ BigIntLess(value, BigIntValue(minValue.neg, Times(minValue.mag, PowerOfTen(18))))

\* what a loop over the answer pushed, and whether it ran to its end
Pushed(ok, returnData) == [ok |-> ok, returnData |-> returnData]

\* the item pushed for a transaction
TransactionItem(tx) ==
    [event |-> "newTransaction", blockNumber |-> tx.blockNumber, value |-> tx.value]

\* the loop over the transactions: one below the minimum is passed over
RECURSIVE TransactionsPushed(_, _, _, _)
TransactionsPushed(transactions, k, minValue, returnData) ==
    IF k > Len(transactions) THEN Pushed(TRUE, returnData)
    ELSE IF ~BigIntLess(BigIntValue(FALSE, <<0>>), minValue)
    THEN TransactionsPushed(transactions, k + 1, minValue,
                            Append(returnData, TransactionItem(transactions[k])))
    ELSE IF ~StringToBigInt(transactions[k].value.v).ok
    THEN Pushed(FALSE, returnData)
    ELSE IF BelowMinimum(StringToBigInt(transactions[k].value.v).value, minValue)
    THEN TransactionsPushed(transactions, k + 1, minValue, returnData)
    ELSE TransactionsPushed(transactions, k + 1, minValue,
                            Append(returnData, TransactionItem(transactions[k])))

\* the item pushed for a log: from and to are cut out of the topics, the
\* value is BigInt(data).toString()
TransferItem(log, value) ==
    [event |-> "tokenTransfer", tokenAddress |-> log.address,
     from |-> <<"0", "x">> \o slice(log.topics[2].v, 26, Len(log.topics[2].v)),
     to |-> <<"0", "x">> \o slice(log.topics[3].v, 26, Len(log.topics[3].v)),
     value |-> Text(BigIntToString(value, 10)),
     blockNumber |-> ParseInt16(log.blockNumber),
     logIndex |-> log.logIndex]

\* the loop over the logs of the first query: a log below the minimum is
\* passed over
RECURSIVE TransfersPushed(_, _, _, _)
TransfersPushed(logs, k, minValue, returnData) ==
    IF k > Len(logs) THEN Pushed(TRUE, returnData)
    ELSE IF ~StringToBigInt(logs[k].data.v).ok THEN Pushed(FALSE, returnData)
    ELSE IF BelowMinimum(StringToBigInt(logs[k].data.v).value, minValue)
    THEN TransfersPushed(logs, k + 1, minValue, returnData)
    ELSE TransfersPushed(logs, k + 1, minValue,
                         Append(returnData,
                                TransferItem(logs[k], StringToBigInt(logs[k].data.v).value)))

\* the loop over the logs of the second query: every log is pushed
RECURSIVE TransfersToPushed(_, _, _)
TransfersToPushed(logsTo, k, returnData) ==
    IF k > Len(logsTo) THEN Pushed(TRUE, returnData)
    ELSE IF ~StringToBigInt(logsTo[k].data.v).ok THEN Pushed(FALSE, returnData)
    ELSE TransfersToPushed(logsTo, k + 1,
                           Append(returnData,
                                  TransferItem(logsTo[k],
                                               StringToBigInt(logsTo[k].data.v).value)))

\* what the branch of `event` pushes for the answer to its first request:
\* nothing unless the answer is an array; minValue is computed before the
\* loop and what BigInt throws ends the try block
EventsPushed(event, outcome, options) ==
    IF ~outcome.ok THEN Pushed(FALSE, <<>>)
    ELSE IF outcome.value.t # "array" THEN Pushed(TRUE, <<>>)
    ELSE IF "items" \notin DOMAIN outcome.value
    THEN Pushed(TRUE, [k \in 1..outcome.value.len |-> [event |-> event]])
    ELSE IF ~MinValue(options).ok THEN Pushed(FALSE, <<>>)
    ELSE IF event = "newTransactionToAddress"
    THEN TransactionsPushed(outcome.value.items, 1, MinValue(options).value, <<>>)
    ELSE TransfersPushed(outcome.value.items, 1, MinValue(options).value, <<>>)

\* the second getLogs of the tokenTransfer branch, as far as its await:
\* topics[1] is null again and topics[2] the padded Filter Address
TransfersToRequested(cs, pushed, filter) ==
    LET run == Requested(StartRpc(cs, httpLog, credentials, "eth_getLogs",
                                  <<TransferFilter(filter.fromBlock, filter.toBlock,
                                                   filter.address, Null,
                                                   paddedAddress(trigger.filterAddress.v))>>,
                                  0, now))
    IN  /\ calls' = run.calls
        /\ httpLog' = run.log
        /\ trigger' = IF run.outcome.ok
                      THEN [trigger EXCEPT !.pc = "logsTo", !.call = Len(run.calls),
                                           !.returnData = pushed.returnData]
                      ELSE Checkpointed(TRUE, trigger.fromBlock, trigger.toBlock,
                                        pushed.returnData)

\* poll after the loop over the answer to its first request: the second
\* query of a token transfer with a Filter Address and no token address, or
\* the catch block when something was thrown, then the checkpoint
EventsLooped(cs, pushed) ==
    IF /\ pushed.ok
       /\ trigger.event = "tokenTransfer"
       /\ Truthy(trigger.filterAddress)
       /\ ~Truthy(TokenAddress(trigger.tokenType, credentials.network))
    THEN TransfersToRequested(cs, pushed, PendingRequest.body.params[1])
    ELSE /\ calls' = cs
         /\ UNCHANGED httpLog
         /\ trigger' = Checkpointed(~pushed.ok, trigger.fromBlock, trigger.toBlock,
                                    pushed.returnData)

\* poll resumed with the answer to the request for the events
EventsResumed(response, outcome) ==
    EventsLooped([calls EXCEPT ![trigger.call] = Completed(@, response, outcome)],
                 EventsPushed(trigger.event, outcome, trigger.options))

\* the explorer or the node answers the request for the events
PollEventsAnswer(a) ==
    /\ trigger.pc = "events"
    /\ a \in EventAnswers(trigger.event)
    /\ EventsResumed(EventsResponse(trigger.event, a),
                     EventsOutcome(trigger.event, EventsResponse(trigger.event, a)))
    /\ UNCHANGED <<credentials, now, query, answer, exec>>

\* poll resumed with the answer to the second query: the loop over logsTo
\* or the catch block, then the checkpoint
LogsToResumed(response, outcome, pushed) ==
    /\ calls' = [calls EXCEPT ![trigger.call] = Completed(@, response, outcome)]
    /\ trigger' = Checkpointed(~pushed.ok, trigger.fromBlock, trigger.toBlock,
                               pushed.returnData)

\* the node answers the second query
PollLogsToAnswer(a) ==
    /\ trigger.pc = "logsTo"
    /\ LogsToResumed(LogsResponse(PendingRequest, a),
                     RpcOutcome(LogsResponse(PendingRequest, a)),
                     IF ~RpcOutcome(LogsResponse(PendingRequest, a)).ok
                     THEN Pushed(FALSE, trigger.returnData)
                     ELSE IF RpcOutcome(LogsResponse(PendingRequest, a)).value.t # "array"
                     THEN Pushed(TRUE, trigger.returnData)
                     ELSE TransfersToPushed(
                              RpcOutcome(LogsResponse(PendingRequest, a)).value.items,
                              1, trigger.returnData))
    /\ UNCHANGED <<credentials, now, httpLog, query, answer, exec>>

\* the chain grows by k blocks: a few at a time, or by LongGap at once
\* while the trigger does not poll
LongGap == 1200
NewBlocks(k) ==
    /\ trigger.head <= FirstHead + MaxBlocks
    /\ k = LongGap \/ trigger.head + k <= FirstHead + MaxBlocks
    /\ trigger' = [trigger EXCEPT !.head = @ + k]
    /\ UNCHANGED <<credentials, now, calls, httpLog, query, answer, exec>>

\* the credentials of the triggers explored
PollCredentialSet ==
    {Credentials("mainnet", Str(""), Str(""), Str("")),
     Credentials("custom", Str(""), Str(""), Str(""))}

\* the Block Confirmations option: absent, or a number
ConfirmationOptions == {Undefined, Num(0), Num(2)}

\* the Minimum Value option: absent, or one token unit
MinValueOptions == {Undefined, Text(<<"1">>)}

\* the parameters of a trigger: the Token and the Filter Address are those
\* of a tokenTransfer trigger, the Minimum Value is an option of the two
\* events that have a value
PollParameters ==
    {p \in [event : PollEvents, tokenType : {"any", "cUSD"},
            filterAddress : {Text(<<>>), Text(FilterAddressA)},
            minValue : MinValueOptions, confirmations : ConfirmationOptions] :
        /\ p.event # "tokenTransfer" => (p.tokenType = "any" /\ p.filterAddress = Text(<<>>))
        /\ p.event = "governanceProposal" => p.minValue = Undefined}

InitPoll ==
    /\ credentials \in PollCredentialSet
    /\ now = 0
    /\ calls = <<>>
    /\ httpLog = <<>>
    /\ query = NoQuery
    /\ answer = Return(Undefined)
    /\ exec = NoExec
    /\ \E p \in PollParameters :
          trigger = [pc |-> "idle", event |-> p.event,
                     tokenType |-> p.tokenType, filterAddress |-> p.filterAddress,
                     options |-> [minValue |-> p.minValue,
                                  confirmations |-> p.confirmations],
                     webhookData |-> [lastBlock |-> Undefined],
                     head |-> FirstHead, cycles |-> 0, call |-> 0,
                     fromBlock |-> Undefined, toBlock |-> Undefined,
                     returnData |-> <<>>,
                     cycle |-> NoCycle]

NextPoll ==
    \/ poll
    \/ \E a \in NodeAnswers : PollBlockNumber(a)
    \/ \E a \in ExplorerAnswers \cup NodeAnswers : PollEventsAnswer(a)
    \/ \E a \in NodeAnswers : PollLogsToAnswer(a)
    \/ \E k \in (1..MaxBlocks) \cup {LongGap} : NewBlocks(k)

SpecPoll == InitPoll /\ [][NextPoll]_vars

----------------------------------------------------------------------------
(* Properties of the transport, checked under Spec.                        *)

RpcCalls == {c \in DOMAIN calls : calls[c].fn = "makeRpcCall"}
ExplorerCalls == {c \in DOMAIN calls : calls[c].fn = "makeExplorerCall"}
RequestsOf(c) == {k \in DOMAIN httpLog : httpLog[k].call = c}

\* C1: whenever the response to a makeRpcCall carries an error object
\* {code, message}, the call fails (it returns no value) and the text of the
\* thrown error contains that message and that code.
C1_ErrorEnvelopeFails ==
    \A c \in RpcCalls :
        (calls[c].answered /\ calls[c].response.error.t = "object")
        => /\ calls[c].status = "failed"
           /\ calls[c].value = Undefined
           /\ calls[c].response.error.message \in Range(calls[c].error)
           /\ ToString(calls[c].response.error.code) \in Range(calls[c].error)

\* a node answered {result: null, error: {code: -32000, ...}} and the call failed
C1_Witness ==
    \E c \in RpcCalls :
        /\ calls[c].answered
        /\ calls[c].response.error = ErrorObject(-32000, "execution reverted")
        /\ calls[c].response.result = Null
        /\ calls[c].status = "failed"

\* C2 (as claimed): a response with a result and no error object is a success
\* that returns the result (null included), and a response with neither
\* result nor error makes the call fail.
C2_NeitherFieldFails ==
    \A c \in RpcCalls :
        calls[c].answered
        => /\ (calls[c].response.result.t # "undefined" /\ ~Truthy(calls[c].response.error))
                => (calls[c].status = "returned" /\ calls[c].value = calls[c].response.result)
           /\ (calls[c].response.result.t = "undefined"
                 /\ calls[c].response.error.t = "undefined")
                => calls[c].status = "failed"

C5_OnePostPerCall ==
    \A c \in RpcCalls :
        IF getRpcUrl(credentials).ok
        THEN /\ Cardinality(RequestsOf(c)) = 1
             /\ \A k \in RequestsOf(c) : httpLog[k].verb = "POST"
        ELSE RequestsOf(c) = {}

\* a call was answered with an error envelope, and a second call with a result
C5_Witness ==
    \E c, d \in RpcCalls :
        /\ calls[c].answered /\ calls[c].status = "failed"
        /\ calls[d].answered /\ calls[d].status = "returned"
        /\ Cardinality(RequestsOf(c)) = 1

\* C6 (as claimed): any two JSON-RPC requests carry distinct ids.
C6_DistinctRequestIds ==
    \A j, k \in DOMAIN httpLog :
        (j # k /\ httpLog[j].verb = "POST" /\ httpLog[k].verb = "POST")
        => httpLog[j].body.id # httpLog[k].body.id

\* C7: a makeExplorerCall that received a response has failed exactly when
\* the response has status "0" and a message other than "No transactions
\* found"; otherwise it returned the response's result, so the sentinel
\* response returns its (empty) result and a status "1" response its result.
C7_ExplorerSentinel ==
    \A c \in ExplorerCalls :
        calls[c].answered
        => LET r == calls[c].response
               isError == /\ r.status.t = "string" /\ r.status.v = "0"
                          /\ ~(r.message.t = "string" /\ r.message.v = "No transactions found")
           IN  /\ (calls[c].status = "failed") <=> isError
               /\ ~isError => (calls[c].status = "returned" /\ calls[c].value = r.result)

\* the explorer answered status "0" / "No transactions found" and the call
\* returned the empty result
C7_Witness ==
    \E c \in ExplorerCalls :
        /\ calls[c].answered
        /\ calls[c].response.status = Str("0")
        /\ calls[c].response.message = Str("No transactions found")
        /\ calls[c].status = "returned"
        /\ calls[c].value = Array(0)

----------------------------------------------------------------------------
(* Properties of the resolvers, checked under SpecResolve.                 *)

\* what a lookup made for `network` instead of query.network would produce
SameLookupFor(network) ==
    CASE query.fn = "getContractAddress" -> getContractAddress(network, query.arg.v)
      [] query.fn = "getStablecoinAddress" -> getStablecoinAddress(query.arg.v, network)
      [] query.fn = "getExchangeAddress" -> getExchangeAddress(query.arg.v, network)
      [] query.fn = "getFeeCurrencyOptions" -> getFeeCurrencyOptions(network)

ContractLookups ==
    {"getContractAddress", "getStablecoinAddress", "getExchangeAddress",
     "getFeeCurrencyOptions"}

\* the lookup names a contract or a stablecoin the registry knows
KnownEntry ==
    CASE query.fn = "getContractAddress" -> query.arg.v \in ContractNames
      [] query.fn = "getStablecoinAddress" -> query.arg.v \in StablecoinSymbols
      [] query.fn = "getExchangeAddress" -> query.arg.v \in StablecoinSymbols
      [] OTHER -> TRUE

\* C8 (as claimed): for a network key that is none of the four profiles,
\* getRpcUrl, getExplorerApiUrl, getContractAddress and getChainId each fail
\* with the unknown-network error and return no value.
C8_UnknownNetworkFails ==
    (/\ query.fn \in {"getRpcUrl", "getExplorerApiUrl", "getContractAddress", "getChainId"}
     /\ query.network \notin CeloNetwork)
    => (~answer.ok /\ answer.error = <<"Unknown network: ", query.network>>)

\* C9 (as claimed): a contract lookup for custom or baklava returns what the
\* same lookup returns for mainnet.
C9_FallbackToMainnet ==
    (/\ query.fn \in ContractLookups
     /\ query.network \in {"custom", "baklava"}
     /\ KnownEntry)
    => answer = SameLookupFor("mainnet")

\* C9 (amended): a contract lookup for custom returns what the same lookup
\* returns for mainnet, and a contract lookup for baklava returns what the
\* same lookup returns for alfajores; this holds for getContractAddress,
\* getStablecoinAddress, getExchangeAddress and getFeeCurrencyOptions.
C9_CustomMainnetBaklavaAlfajores ==
    (query.fn \in ContractLookups /\ KnownEntry)
    => /\ query.network = "custom"
            => (answer.ok /\ answer = SameLookupFor("mainnet"))
       /\ query.network = "baklava"
            => (answer.ok /\ answer = SameLookupFor("alfajores"))

\* getContractAddress('custom', 'StableToken') returned the mainnet cUSD address
C9_Witness ==
    /\ query = Lookup("getContractAddress", "custom", Str("StableToken"))
    /\ answer = Return(Str("0x765DE816845861e75A25fCA122bb6898B8B1282a"))

----------------------------------------------------------------------------
(* Properties of execute.                                                  *)

\* the items of the current run whose iteration has run
Processed ==
    IF exec.status = "idle" THEN {}
    ELSE IF exec.status = "thrown" THEN 1..exec.i
    ELSE 1..(exec.i - 1)

\* the requests issued for the item at position k
RequestsForItem(k) == {r \in DOMAIN httpLog : httpLog[r].item = k - 1}

\* an amount that is not digits with at most one decimal point
MalformedAmount(amount) ==
    \/ \E k \in DOMAIN amount : amount[k] \notin DecimalDigitChars \cup {"."}
    \/ \E j, k \in DOMAIN amount : j < k /\ amount[j] = "." /\ amount[k] = "."
    \/ amount = <<>>

\* the item carries a malformed value for a parameter the operation reads
MalformedInput(operation, item) ==
    CASE operation \in {"getBalance", "getTransactionHistory"} -> ~isValidAddress(item.address)
      [] operation = "getTransaction" -> ~isValidTransactionHash(item.transactionHash)
      [] operation = "estimateGas" ->
           ~isValidAddress(item.toAddress) \/ MalformedAmount(item.amount)
      [] OTHER -> FALSE

\* C4: in every run of execute, an item whose address, transaction hash or
\* amount is malformed fails, and no RPC or explorer request is issued for it.
C4_MalformedInputRejected ==
    \A k \in Processed :
        (/\ <<exec.resource, exec.operation>> \in ReadOperations
         /\ MalformedInput(exec.operation, exec.items[k]))
        => (k \in exec.failed /\ RequestsForItem(k) = {})

----------------------------------------------------------------------------
(* Properties of poll.                                                     *)

\* the request a finished cycle made last was answered with a failure
LastRequestFailed ==
    /\ trigger.pc = "idle"
    /\ calls # <<>>
    /\ calls[Len(calls)].answered
    /\ calls[Len(calls)].status = "failed"

\* C11: when the fetch of the events of a block range failed in a cycle
\* (the catch block ran), the checkpoint is left where the cycle found it,
\* so that the next cycle queries the same range again.
C11_FailedRangeRetried ==
    (/\ LastRequestFailed
     /\ trigger.cycle.caught
     /\ trigger.cycle.fromBlock.t = "number")
    => trigger.webhookData.lastBlock = trigger.cycle.checkpoint

\* C12: a cycle whose request to the node or to the explorer failed does
\* not end with an error thrown to the scheduler.
C12_PollNeverThrows ==
    LastRequestFailed => trigger.cycle.result # "thrown"

----------------------------------------------------------------------------
(* Properties of the encoders and decoders, checked under SpecCodec.       *)

AllowListedTypes == {"address", "uint256", "uint", "bool", "bytes32"}
UintTypes == {"uint256", "uint"}

\* the integer a parameter value spells, when it spells one
IsInteger(value) == value.t = "text" /\ Literal(value.v).ok
InUint256(value) ==
    /\ IsInteger(value)
    /\ ~StringToBigInt(value.v).value.neg
    /\ LessMagnitude(StringToBigInt(value.v).value.mag, FromDecimal(TwoTo256Text))

\* the state after an encoder was applied
EncoderApplied == query.fn \in {"encodeFunctionCall", "encodeFunctionData"}
\* the state after encodeFunctionData was applied to a function it knows,
\* or encodeFunctionCall to any
EncoderKnewFunction ==
    \/ query.fn = "encodeFunctionCall"
    \/ query.fn = "encodeFunctionData" /\ query.functionName \in DOMAIN signatures

\* an integer parameter whose value is negative or has more than 256 bits
UintOutOfRangeAt(k) ==
    /\ query.types[k] \in UintTypes
    /\ IsInteger(query.values[k])
    /\ ~InUint256(query.values[k])

\* C13: encoding a uint256/uint parameter whose value is negative or does
\* not fit in 256 bits fails: the encoder throws and returns no calldata.
C13_UintOutOfRangeFails ==
    (/\ EncoderApplied
     /\ \E k \in DOMAIN query.types : UintOutOfRangeAt(k))
    => ~answer.ok

\* C14: encodeFunctionCall fails for every call with a parameter of a type
\* it cannot encode faithfully (string, bytes, or a type outside the
\* allow-list such as uint8); it returns no calldata for such a call.
C14_UnencodableTypeFails ==
    (/\ query.fn = "encodeFunctionCall"
     /\ \E k \in DOMAIN query.types : query.types[k] \notin AllowListedTypes)
    => ~answer.ok

\* a valid value of an allow-listed static type
ValidValue(type, value) ==
    CASE type = "address" -> value.t = "text" /\ isValidAddress(value.v)
      [] type \in UintTypes -> InUint256(value)
      [] type = "bool" -> value.t = "boolean"
      [] type = "bytes32" -> value.t = "text" /\ isValidTransactionHash(value.v)
      [] OTHER -> FALSE

ValidStaticCall ==
    /\ EncoderKnewFunction
    /\ \A k \in DOMAIN query.types :
          /\ query.types[k] \in AllowListedTypes
          /\ ValidValue(query.types[k], query.values[k])

Zeros(n) == [k \in 1..n |-> "0"]

\* the 64 hex digits that are the ABI word of a valid value
IsWordOf(word, type, value) ==
    CASE type = "address" ->
            word = Zeros(24) \o toLowerCase(SubSeq(value.v, 3, 42))
      [] type \in UintTypes ->
            /\ AllIn(word, Range(DigitChars))
            /\ FromBase(word, 16, <<0>>) = StringToBigInt(value.v).value.mag
      [] type = "bool" ->
            word = Zeros(63) \o (IF value.v THEN <<"1">> ELSE <<"0">>)
      [] type = "bytes32" -> word = SubSeq(value.v, 3, 66)
      [] OTHER -> FALSE

\* C15: for a call with n parameters of allow-listed static types and n
\* valid values, encodeFunctionCall and encodeFunctionData return '0x', 8
\* hex digits of selector and exactly n words of 64 hex digits, the k-th
\* word being the word of the k-th parameter (total length 10 + 64 * n).
C15_StaticCalldataLayout ==
    ValidStaticCall =>
        /\ answer.ok
        /\ answer.value.t = "text"
        /\ Len(answer.value.v) = 10 + 64 * Len(query.types)
        /\ SubSeq(answer.value.v, 1, 2) = <<"0", "x">>
        /\ AllIn(SubSeq(answer.value.v, 3, 10), HexDigitChars)
        /\ \A k \in DOMAIN query.types :
              IsWordOf(SubSeq(answer.value.v, 64 * k - 53, 64 * k + 10),
                       query.types[k], query.values[k])

C15_Witness ==
    /\ ValidStaticCall
    /\ query.fn = "encodeFunctionCall"
    /\ query.types = <<"uint256", "bool">>
    /\ query.values[1] = Text(MaxUint256Text)
    /\ answer.ok

\* the state after a decoder was applied to the word of one encoded
\* parameter of the given types with a valid value
DecodedOneOf(types) ==
    /\ query.fn \in {"decodeResult", "decodeAddress", "decodeUint256"}
    /\ "encoded" \in DOMAIN query
    /\ Len(query.encoded.types) = 1
    /\ query.encoded.types[1] \in types
    /\ ValidValue(query.encoded.types[1], query.encoded.values[1])

\* what a decoder returns for one decoded text: decodeResult a list of it
Decoded(text) ==
    IF query.fn = "decodeResult" THEN Return(<<Text(text)>>) ELSE Return(Text(text))

\* C16: for every valid address a (0x and 40 hex digits in any letter
\* case), decoding the word produced by encoding a as an address parameter
\* returns lowercase(a), with decodeAddress and with
\* decodeResult(word, ['address']).
C16_AddressRoundTrip ==
    DecodedOneOf({"address"}) =>
        answer = Decoded(toLowerCase(query.encoded.values[1].v))

C16_Witness ==
    /\ DecodedOneOf({"address"})
    /\ query.fn = "decodeAddress"
    /\ query.encoded.values[1] = Text(CeloTokenAddress)
    /\ answer.ok

\* C17: for every integer n with 0 <= n < 2^256, decoding the word produced
\* by encoding n as a uint256 parameter returns n as a decimal string, with
\* decodeUint256 and with decodeResult(word, ['uint256']).
C17_Uint256RoundTrip ==
    DecodedOneOf(UintTypes) =>
        answer = Decoded(BigIntToString(StringToBigInt(query.encoded.values[1].v).value, 10))

C17_Witness ==
    /\ DecodedOneOf(UintTypes)
    /\ query.fn = "decodeUint256"
    /\ query.encoded.values[1] = Text(MaxUint256Text)
    /\ answer.ok

----------------------------------------------------------------------------
(* Properties of the unit functions, checked under SpecUnits.              *)

\* a text of decimal digits, and one with at most one '.' in it
IsDecimalText(text) == text # <<>> /\ AllIn(text, DecimalDigitChars)
IsAmountText(text) ==
    /\ IsDecimalText(SplitAmount(text).integerPart)
    /\ AllIn(SplitAmount(text).fractionalPart, DecimalDigitChars)
    /\ Len(text) <= Len(SplitAmount(text).integerPart) + 1
                    + Len(SplitAmount(text).fractionalPart)

\* digits without the zeros in front of them, "0" when nothing is left
WithoutLeadingZeros(text) ==
    IF \A k \in DOMAIN text : text[k] = "0" THEN <<"0">>
    ELSE SubSeq(text, CHOOSE k \in DOMAIN text :
                         text[k] # "0" /\ \A j \in 1..(k - 1) : text[j] = "0",
                Len(text))

\* an integer part and a fractional part written as one amount, exactly:
\* no zeros in front, none at the end of the fraction, no '.' without a
\* fraction
ExactAmount(integerDigits, fractionalDigits) ==
    IF \A k \in DOMAIN fractionalDigits : fractionalDigits[k] = "0"
    THEN WithoutLeadingZeros(integerDigits)
    ELSE WithoutLeadingZeros(integerDigits) \o <<".">> \o
         SubSeq(fractionalDigits, 1,
                CHOOSE k \in DOMAIN fractionalDigits :
                   /\ fractionalDigits[k] # "0"
                   /\ \A j \in (k + 1)..Len(fractionalDigits) : fractionalDigits[j] = "0")

\* an amount times 10^places (places < 0: divided by 10^-places), exactly:
\* its decimal point moved
PointMovedRight(integerDigits, fractionalDigits, places) ==
    ExactAmount(integerDigits \o
                   [k \in 1..places |->
                       IF k <= Len(fractionalDigits) THEN fractionalDigits[k] ELSE "0"],
                IF Len(fractionalDigits) > places
                THEN SubSeq(fractionalDigits, places + 1, Len(fractionalDigits))
                ELSE <<>>)
PointMovedLeft(integerDigits, fractionalDigits, places) ==
    ExactAmount(IF Len(integerDigits) > places
                THEN SubSeq(integerDigits, 1, Len(integerDigits) - places)
                ELSE <<>>,
                [k \in 1..places |->
                    IF k + Len(integerDigits) > places
                    THEN integerDigits[k + Len(integerDigits) - places] ELSE "0"]
                \o fractionalDigits)
PointMoved(amount, places) ==
    IF places >= 0
    THEN PointMovedRight(SplitAmount(amount).integerPart,
                         SplitAmount(amount).fractionalPart, places)
    ELSE PointMovedLeft(SplitAmount(amount).integerPart,
                        SplitAmount(amount).fractionalPart, -places)

\* C18: for every non-negative base amount v and every decimals count d,
\* parseUnits(formatUnits(v, d), d) = v as a decimal string.
C18_FormatParseRoundTrip ==
    (/\ query.fn = "parseUnits"
     /\ IsDecimalText(query.formatted.value))
    => answer = Return(WithoutLeadingZeros(query.formatted.value))

\* C19: for every non-negative base amount v given as a decimal string and
\* every decimals count d >= 0, d = 0 included, formatUnits(v, d) and
\* formatTokenAmount(v, d) both return v div 10^d, followed, only when
\* v mod 10^d is not 0, by '.' and the remainder padded to d digits with
\* its trailing zeros stripped; "0" for v = 0.
C19_ReferenceRendering ==
    (/\ query.fn \in {"formatUnits", "formatTokenAmount"}
     /\ IsDecimalText(query.value)
     /\ query.decimals >= 0)
    => answer = Return(PointMoved(query.value, -query.decimals))

\* C20: for every non-negative amount and every unit u of wei, gwei, celo,
\* the three fields convertUnits returns all denote the amount exactly:
\* wei = value * 10^k(u) with k = 0, 9, 18, gwei = wei / 10^9 and
\* celo = wei / 10^18, no digit dropped.
C20_ConvertUnitsExact ==
    (/\ query.fn = "convertUnits"
     /\ query.fromUnit \in DOMAIN UnitExponents
     /\ IsAmountText(query.value))
    => /\ answer.ok
       /\ answer.value.wei = PointMoved(query.value, UnitExponents[query.fromUnit])
       /\ answer.value.gwei = PointMoved(query.value, UnitExponents[query.fromUnit] - 9)
       /\ answer.value.celo = PointMoved(query.value, UnitExponents[query.fromUnit] - 18)

----------------------------------------------------------------------------
(* Properties of toHex, checked under SpecUnits.                           *)

\* a representation of a non-negative integer: a number, a decimal string
\* or 0x followed by hexadecimal digits
IsHexText(text) ==
    /\ Len(text) > 2
    /\ text[1] = "0" /\ text[2] = "x"
    /\ AllIn(SubSeq(text, 3, Len(text)), HexDigitChars)
RepresentsNatural(value) ==
    IF value.t = "number" THEN value.v >= 0
    ELSE value.t = "text" /\ (IsDecimalText(value.v) \/ IsHexText(value.v))

\* the minimal hexadecimal digits of the integer a representation denotes
MinimalHexDigits(value) ==
    IF value.t = "number" THEN SmallToBase(value.v, 16, 1)
    ELSE IF IsHexText(value.v)
    THEN WithoutLeadingZeros(toLowerCase(SubSeq(value.v, 3, Len(value.v))))
    ELSE ToBase(FromDecimal(value.v), 16)

\* C21: for every representation x of a non-negative integer (number,
\* decimal string or 0x-prefixed hex string) toHex(x) is 0x followed by the
\* minimal hex digits of that integer, no leading zero beyond a single
\* digit, and toHex(toHex(x)) = toHex(x).
C21_ToHexMinimal ==
    (query.fn = "toHex" /\ RepresentsNatural(query.value))
    => /\ answer.ok
       /\ toLowerCase(answer.value) = <<"0", "x">> \o MinimalHexDigits(query.value)
       /\ "first" \in DOMAIN query => answer.value = query.value.v

\* C21, as the code has it: a string that starts with 0x is returned
\* unchanged, leading zeros included; a number or a decimal string that
\* denotes a non-negative integer becomes 0x followed by the minimal hex
\* digits of that integer; and toHex(toHex(x)) = toHex(x).
C21_ToHexUnchangedOrMinimal ==
    (query.fn = "toHex" /\ RepresentsNatural(query.value))
    => /\ answer.ok
       /\ IF query.value.t = "text" /\ IsHexText(query.value.v)
          THEN answer.value = query.value.v
          ELSE answer.value = <<"0", "x">> \o MinimalHexDigits(query.value)
       /\ "first" \in DOMAIN query => answer.value = query.value.v

\* toHex applied to the '0x64' it returned for the decimal string '100'
C21_Witness ==
    /\ query.fn = "toHex"
    /\ "first" \in DOMAIN query
    /\ query.first.value = Text(<<"1", "0", "0">>)
    /\ answer = Return(<<"0", "x", "6", "4">>)

\* toHex applied twice returns what it returned the first time
ToHexIdempotent ==
    (query.fn = "toHex" /\ "first" \in DOMAIN query)
    => answer = Return(query.value.v)

----------------------------------------------------------------------------
(* Properties of the function selectors, checked under SpecCodec.          *)

\* the first 4 bytes of the Keccak-256 digest (the original Keccak padding,
\* as the EVM uses it) of the signatures of this model
Keccak256Selectors == {
    <<Signature("balanceOf", <<"address">>), <<"7", "0", "a", "0", "8", "2", "3", "1">>>>,
    <<Signature("transfer", <<"address", "uint256">>), <<"a", "9", "0", "5", "9", "c", "b", "b">>>>,
    <<Signature("approve", <<"address", "uint256">>), <<"0", "9", "5", "e", "a", "7", "b", "3">>>>,
    <<Signature("allowance", <<"address", "address">>), <<"d", "d", "6", "2", "e", "d", "3", "e">>>>,
    <<Signature("totalSupply", <<>>), <<"1", "8", "1", "6", "0", "d", "d", "d">>>>,
    <<Signature("decimals", <<>>), <<"3", "1", "3", "c", "e", "5", "6", "7">>>>,
    <<Signature("name", <<>>), <<"0", "6", "f", "d", "d", "e", "0", "3">>>>,
    <<Signature("symbol", <<>>), <<"9", "5", "d", "8", "9", "b", "4", "1">>>>,
    <<Signature("withdraw", <<"uint256">>), <<"2", "e", "1", "a", "7", "d", "4", "d">>>>,
    <<Signature("burn", <<"uint">>), <<"8", "0", "b", "9", "a", "c", "7", "9">>>>,
    <<Signature("setEnabled", <<"bool">>), <<"3", "2", "8", "d", "8", "f", "7", "2">>>>,
    <<Signature("commit", <<"bytes32">>), <<"f", "1", "4", "f", "c", "b", "c", "8">>>>,
    <<Signature("mint", <<"address", "uint">>), <<"a", "0", "e", "9", "4", "3", "9", "c">>>>,
    <<Signature("vote", <<"uint256", "bool">>), <<"c", "9", "d", "2", "7", "a", "f", "e">>>>,
    <<Signature("setName", <<"string">>), <<"c", "4", "7", "f", "0", "0", "2", "7">>>>,
    <<Signature("store", <<"bytes">>), <<"b", "3", "7", "4", "0", "1", "2", "b">>>>,
    <<Signature("setDecimals", <<"uint8">>), <<"7", "a", "1", "3", "9", "5", "a", "a">>>>,
    <<Signature("register", <<"string", "uint256">>), <<"e", "a", "8", "7", "1", "5", "2", "b">>>>,
    <<Signature("setFee", <<"uint8", "uint256">>), <<"8", "c", "6", "a", "a", "3", "f", "5">>>>}
Keccak256Selector(signature) ==
    (CHOOSE row \in Keccak256Selectors : row[1] = signature)[2]

\* getFunctionSelector and createFunctionSelector return the same selector
\* for every signature
SelectorsAgree ==
    \A signature \in CallSignatures :
       getFunctionSelector(signature.name, signature.types)
          = createFunctionSelector(signature)

\* C22: for every function name and parameter type list the selector is
\* '0x' + the first 4 bytes of the Keccak-256 digest of the signature
\* name(type1,type2,...), and getFunctionSelector and
\* createFunctionSelector return the same selector for the same signature.
C22_SelectorIsKeccak ==
    (query.fn \in {"getFunctionSelector", "createFunctionSelector"})
    => /\ answer = Return(<<"0", "x">> \o Keccak256Selector(query.signature))
       /\ SelectorsAgree

----------------------------------------------------------------------------
(* Properties of decodeResult on returned data, checked under SpecCodec.   *)

\* the types decodeResult has a branch for
DecodableTypes == {"address", "uint256", "uint", "bool", "bytes32"}

\* the value of type `type` that the i-th word of the data holds
WordValue(hex, type, i) ==
    DecodedValue(replace0x(hex), type, 64 * (i - 1)).value.pushed[1]

\* C26: decodeResult(hex, types) returns exactly one value per entry of
\* types, the i-th value decoded from the i-th 32-byte word of hex: the
\* read offset advances by one word for every requested field, whatever
\* its type.
C26_OneValuePerType ==
    (/\ query.fn = "decodeResult"
     /\ "types" \in DOMAIN query)
    => /\ answer.ok
       /\ Len(answer.value) = Len(query.types)
       /\ \A i \in DOMAIN query.types :
             query.types[i] \in DecodableTypes
             => answer.value[i] = WordValue(query.hex, query.types[i], i)

----------------------------------------------------------------------------
(* Properties of the loop of execute over its items, checked under         *)
(* SpecExec.                                                               *)

\* the output item at position k belongs to the input item at position k:
\* where the report names an address, it is that item's
OutputOfItem(k) ==
    "address" \in DOMAIN exec.returnData[k].json
    => exec.returnData[k].json.address = exec.items[k].address

\* C28: with continueOnFail enabled execute returns exactly one output
\* item per input item, in input order, a failed item being replaced by
\* {error: message} and later items still being processed; with
\* continueOnFail disabled the first failing item aborts execute with that
\* error and no later item is processed.
C28_ContinueOnFail ==
    exec.status # "idle"
    => /\ exec.continueOnFail
          => /\ exec.status # "thrown"
             /\ Len(exec.returnData) = exec.i - 1
             /\ exec.status = "returned" => Len(exec.returnData) = Len(exec.items)
             /\ \A k \in DOMAIN exec.returnData :
                   IF k \in exec.failed
                   THEN DOMAIN exec.returnData[k].json = {"error"}
                   ELSE OutputOfItem(k)
       /\ ~exec.continueOnFail
          => /\ exec.failed # {} <=> exec.status = "thrown"
             /\ exec.status = "thrown"
                => /\ exec.failed = {exec.i}
                   /\ exec.error # <<>>
                   /\ Len(exec.returnData) = exec.i - 1
             /\ \A r \in DOMAIN httpLog : httpLog[r].item <= exec.i - 1

\* a run with continueOnFail whose first item failed and whose second item
\* was processed and succeeded
C28_Witness ==
    /\ exec.status = "returned"
    /\ exec.continueOnFail
    /\ Len(exec.items) = 2
    /\ exec.failed = {1}
    /\ "address" \in DOMAIN exec.returnData[2].json

\* a run without continueOnFail that the first of two items aborted
ExecuteAborted ==
    /\ exec.status = "thrown"
    /\ Len(exec.items) = 2
    /\ exec.i = 1

----------------------------------------------------------------------------
(* Properties of retryWithBackoff, checked under FairSpecRetry.            *)

Retrying == query.fn = "retryWithBackoff" /\ query.pc # "done"
Retried == query.fn = "retryWithBackoff" /\ query.pc = "done"

\* the invocations of fn before the last one failed
EarlierFailed == \A k \in 1..(Len(query.outcomes) - 1) : ~query.outcomes[k].ok

\* the waits so far: baseDelay * 2^i after failed attempt i, i from 0
BackedOff(n) ==
    /\ Len(query.slept) = n
    /\ \A k \in 1..n : query.slept[k] = query.baseDelay * 2 ^ (k - 1)

RetrySafe ==
    query.fn = "retryWithBackoff"
    => /\ query.invoked <= query.maxRetries
       /\ query.invoked \in {Len(query.outcomes), Len(query.outcomes) + 1}
       /\ EarlierFailed
       /\ (Retried /\ answer.ok)
          => /\ query.invoked = Len(query.outcomes)
             /\ answer = query.outcomes[query.invoked]
             /\ BackedOff(query.invoked - 1)
       /\ (Retried /\ ~answer.ok)
          => /\ query.invoked = query.maxRetries
             /\ Len(query.outcomes) = query.maxRetries
             /\ query.maxRetries >= 1
             /\ answer = query.outcomes[query.maxRetries]
             /\ BackedOff(query.maxRetries - 1)

\* C27: retryWithBackoff(fn, maxRetries, baseDelay) always terminates; it
\* invokes fn sequentially, returns the value of the first successful
\* invocation without invoking fn again, and fails, with the error thrown
\* by the last invocation of fn, only after exactly maxRetries failed
\* invocations, for every maxRetries >= 0; it waits baseDelay * 2^i between
\* failed attempt i and the next attempt and not after the final attempt.
C27_RetryTerminates == []RetrySafe /\ (Retrying ~> Retried)

----------------------------------------------------------------------------
(* Properties of the tokenTransfer branch of poll, checked under SpecPoll. *)

\* the calls of the last cycle: those made after its eth_blockNumber
IsHeadCall(b) == calls[b].fn = "makeRpcCall" /\ calls[b].method = "eth_blockNumber"
CycleCalls ==
    {c \in DOMAIN calls :
        \E b \in 1..(c - 1) :
           IsHeadCall(b) /\ \A d \in (b + 1)..Len(calls) : ~IsHeadCall(d)}

\* a cycle has ended past its try block, without a throw, and every request
\* it made was answered with the events of the chain
CycleAnswered ==
    /\ trigger.pc = "idle"
    /\ trigger.cycle.result \in {"data", "null"}
    /\ ~trigger.cycle.caught
    /\ trigger.cycle.fromBlock.t = "number"
    /\ trigger.cycle.toBlock.t = "number"
    /\ CycleCalls # {}
    /\ \A c \in CycleCalls :
          /\ calls[c].status = "returned"
          /\ calls[c].value.t = "array"
          /\ "items" \in DOMAIN calls[c].value

\* the account of the Filter Address, and whether a log names it as the
\* sender or as the recipient
WatchedWord == [k \in 1..24 |-> "0"] \o [k \in 1..40 |-> "a"]
Involved(log) ==
    \/ SubSeq(log.topics[2].v, 3, 66) = WatchedWord
    \/ SubSeq(log.topics[3].v, 3, 66) = WatchedWord

\* the logs of the polled range that the trigger is to report: Transfer
\* logs of the token selected (of any token for 'any') that involve the
\* Filter Address
OfSelectedToken(log) ==
    CASE trigger.tokenType = "cUSD" ->
           log.address = Str(IF credentials.network \in {"mainnet", "custom"}
                             THEN STABLECOINS.cUSD.mainnet
                             ELSE STABLECOINS.cUSD.alfajores)
      [] OTHER -> TRUE
InPolledRange(log) ==
    /\ trigger.cycle.fromBlock.v <= NatOfHex(SubSeq(log.blockNumber.v, 3, Len(log.blockNumber.v)), 0)
    /\ NatOfHex(SubSeq(log.blockNumber.v, 3, Len(log.blockNumber.v)), 0) <= trigger.cycle.toBlock.v
TransfersToReport ==
    {k \in DOMAIN ChainLogs :
        /\ InPolledRange(ChainLogs[k])
        /\ OfSelectedToken(ChainLogs[k])
        /\ Involved(ChainLogs[k])}

\* how many of the items returned by the cycle are for the log k
TimesEmitted(k) ==
    Cardinality({i \in DOMAIN trigger.returnData :
                    trigger.returnData[i].logIndex = ChainLogs[k].logIndex})

FilteredTransferCycle ==
    /\ trigger.event = "tokenTransfer"
    /\ Truthy(trigger.filterAddress)
    /\ ~Truthy(trigger.options.minValue)
    /\ CycleAnswered

\* C23: in a tokenTransfer poll with a Filter Address, exactly one event is
\* emitted for each Transfer log of the polled range in which the address is
\* the sender or the recipient, whichever token option is selected.
C23_EachTransferOnce ==
    FilteredTransferCycle
    => \A k \in DOMAIN ChainLogs :
          TimesEmitted(k) = IF k \in TransfersToReport THEN 1 ELSE 0

\* with a token selected, a transfer to the Filter Address is not emitted
C23_RecipientMissed ==
    /\ FilteredTransferCycle
    /\ trigger.tokenType = "cUSD"
    /\ \E k \in TransfersToReport : TimesEmitted(k) = 0

\* with 'any', a transfer from the Filter Address to itself is emitted twice
C23_SelfTransferTwice ==
    /\ FilteredTransferCycle
    /\ trigger.tokenType = "any"
    /\ \E k \in TransfersToReport : TimesEmitted(k) = 2

\* no log outside those to report is emitted, and none more than twice
C23_NothingElseEmitted ==
    FilteredTransferCycle
    => \A k \in DOMAIN ChainLogs :
          /\ k \notin TransfersToReport => TimesEmitted(k) = 0
          /\ TimesEmitted(k) <= 2

\* m * 10^18 for the Minimum Value m of the trigger, as decimal digits
MinimumInBaseUnits ==
    FromDecimal(trigger.options.minValue.v \o [k \in 1..18 |-> "0"])

\* the items a finished cycle returned whose value is below the minimum
BelowMinimumItems ==
    {i \in DOMAIN trigger.returnData :
        /\ "value" \in DOMAIN trigger.returnData[i]
        /\ LessMagnitude(FromDecimal(trigger.returnData[i].value.v), MinimumInBaseUnits)}

MinimumSet ==
    /\ trigger.pc = "idle"
    /\ Truthy(trigger.options.minValue)
    /\ AllIn(trigger.options.minValue.v, DecimalDigitChars)
    /\ FromDecimal(trigger.options.minValue.v) # <<0>>

\* C24: with the Minimum Value option set to m > 0, no event emitted by
\* poll, on any query path, has a value below m * 10^18 base units.
C24_NoEventBelowMinimum ==
    MinimumSet => BelowMinimumItems = {}

\* the events of the first query are held to the minimum: those of
\* newTransactionToAddress, and those of tokenTransfer when no second query
\* is made
C24_FirstQueryHeldToMinimum ==
    (/\ MinimumSet
     /\ \/ trigger.event = "newTransactionToAddress"
        \/ trigger.tokenType # "any"
        \/ ~Truthy(trigger.filterAddress))
    => BelowMinimumItems = {}

----------------------------------------------------------------------------
(* Properties of the block range of poll, checked under SpecPoll.          *)

\* the head the last cycle read: the answer to its eth_blockNumber, a
\* number when the node answered with hex digits
HeadCall ==
    CHOOSE b \in DOMAIN calls :
       IsHeadCall(b) /\ \A d \in (b + 1)..Len(calls) : ~IsHeadCall(d)
HeadRead ==
    /\ trigger.pc # "getBlockNumber"
    /\ \E b \in DOMAIN calls : IsHeadCall(b)
    /\ calls[HeadCall].status = "returned"
    /\ calls[HeadCall].value.t = "text"
    /\ Len(calls[HeadCall].value.v) > 2
    /\ AllIn(SubSeq(calls[HeadCall].value.v, 3, Len(calls[HeadCall].value.v)),
             HexDigitChars)
CurrentBlock ==
    NatOfHex(SubSeq(calls[HeadCall].value.v, 3, Len(calls[HeadCall].value.v)), 0)

\* the end of the range the cycle queries or has queried, if it came to that
QueriedTo ==
    IF trigger.pc \in {"events", "logsTo"} THEN trigger.toBlock
    ELSE trigger.cycle.toBlock

\* the block of an item: a number in a transfer, decimal digits in a
\* transaction
BlockOfItem(item) ==
    IF item.blockNumber.t = "number" THEN item.blockNumber.v
    ELSE NatOfDecimal(item.blockNumber.v, 0)

C25_ZeroConfirmations ==
    /\ trigger.options.confirmations = Num(0)
    /\ HeadRead
    /\ trigger.pc = "idle"
    /\ trigger.cycle.result = "data"
    /\ trigger.cycle.toBlock = Num(CurrentBlock - 1)

\* a cycle that found a checkpoint queried a range and moved the checkpoint
\* to the end of it
CheckpointAdvanced ==
    /\ trigger.pc = "idle"
    /\ trigger.cycle.checkpoint.t = "number"
    /\ trigger.cycle.fromBlock.t = "number"
    /\ trigger.cycle.toBlock.t = "number"
    /\ trigger.webhookData.lastBlock = trigger.cycle.toBlock

\* C29: the ranges queried by the cycles that advance the checkpoint are
\* contiguous: each such cycle starts at the previous checkpoint + 1,
\* however far the checkpoint lags behind the head.
C29_RangesContiguous ==
    CheckpointAdvanced
    => trigger.cycle.fromBlock.v = trigger.cycle.checkpoint.v + 1

\* the blocks between the checkpoint and the start of the range were never
\* queried: the head had outrun the checkpoint by more than RangeLimit
C29_BlocksSkipped ==
    /\ CheckpointAdvanced
    /\ HeadRead
    /\ trigger.cycle.fromBlock.v > trigger.cycle.checkpoint.v + 1
    /\ trigger.cycle.fromBlock.v = CurrentBlock - RangeLimit

\* while the head is at most RangeLimit + 1 blocks past the checkpoint, the
\* range starts at the checkpoint + 1
C29_ContiguousWithinLimit ==
    (/\ CheckpointAdvanced
     /\ HeadRead
     /\ CurrentBlock - trigger.cycle.checkpoint.v <= RangeLimit + 1)
    => trigger.cycle.fromBlock.v = trigger.cycle.checkpoint.v + 1

\* a second cycle began where the first one ended
C29_SecondCycleContiguous ==
    /\ CheckpointAdvanced
    /\ trigger.cycle.fromBlock.v = trigger.cycle.checkpoint.v + 1

\* a cycle has ended
CycleEnded ==
    /\ trigger.pc = "idle"
    /\ trigger.cycle.result # "none"

\* the checkpoint is where the cycle found it, or it is a block number
\* greater than the one the cycle found
CheckpointKeptOrGreater ==
    \/ trigger.webhookData.lastBlock = trigger.cycle.checkpoint
    \/ /\ trigger.webhookData.lastBlock.t = "number"
       /\ trigger.cycle.checkpoint.t = "number"
          => trigger.webhookData.lastBlock.v > trigger.cycle.checkpoint.v

\* C30: the persisted lastBlock checkpoint never decreases: every poll cycle
\* either leaves it unchanged or sets it to a value greater than the one it
\* read at the start of the cycle.
C30_CheckpointNeverDecreases ==
    CycleEnded => CheckpointKeptOrGreater

\* a cycle replaced a block number by NaN: the node had answered
\* eth_blockNumber with a result that parseInt does not read
C30_CheckpointLost ==
    /\ CycleEnded
    /\ trigger.cycle.checkpoint.t = "number"
    /\ trigger.webhookData.lastBlock.t = "NaN"
    /\ ~HeadRead

\* in the cycles that read the head as a number the checkpoint is kept or
\* grows
C30_GrowsWhenHeadRead ==
    (CycleEnded /\ HeadRead) => CheckpointKeptOrGreater

\* a cycle moved a checkpoint forward
C30_CheckpointMoved ==
    /\ CycleEnded
    /\ trigger.cycle.checkpoint.t = "number"
    /\ trigger.webhookData.lastBlock.t = "number"
    /\ trigger.webhookData.lastBlock.v > trigger.cycle.checkpoint.v

============================================================================
